---- MODULE Spec2Model ----
(***************************************************************************)
(* A model of the Monkey interpreter of xpcoffee/waiig: the tree-walking   *)
(* evaluator (package evaluator) and the Pratt parser (package parser).    *)
(*                                                                         *)
(* The evaluator is modelled as the loop of evalProgram: one action per    *)
(* iteration, the statement drawn from a pool of statements, the whole     *)
(* recursive Eval of that statement computed by RECURSIVE operators that   *)
(* thread the store (environments, allocation counter, evaluation log).    *)
(* The parser is modelled as a machine with an explicit call stack, one    *)
(* action per parse function.                                              *)
(***************************************************************************)
EXTENDS Integers, Sequences, FiniteSets, TLC

VARIABLES
    \* ---- evaluator ----
    pc,        \* position of evalProgram: "loop", "returned", "panic"
    result,    \* evalProgram's local `result`, its return value once pc = "returned"
    heap,      \* the environments allocated so far: heap[e] = [store, outer]
    next,      \* the next fresh object address (pointer identity of objects)
    prog,      \* the statements (pool indices) the loop has evaluated so far
    trace,     \* evaluation log of the last loop iteration (ghost)
    mem,       \* the backing arrays of the slices allocated so far
    \* ---- parser ----
    input,     \* the tokens the lexer yields before end of input
    p,         \* the Parser struct: l, curToken, peekToken, errors
    stack,     \* the call stack of the parse functions, innermost last
    ret,       \* the value the function that returned last handed back
    program    \* what ParseProgram returned (NoNode while it runs)

evars == <<pc, result, heap, next, prog, trace, mem>>
pvars == <<input, p, stack, ret, program>>
vars == <<pc, result, heap, next, prog, trace, mem, input, p, stack, ret, program>>

(***************************************************************************)
(* Bounds of the model.                                                    *)
(***************************************************************************)
\* the longest program (number of top-level statements) evalProgram is run on
MaxStmts == 3
\* nested user-function applications the host stack holds before it aborts
MaxCallDepth == 4
\* the most pairs of a hash literal
MaxPairs == 2

(***************************************************************************)
(* AST (package ast).  A node is a record with its struct's fields and a   *)
(* `node` field naming the struct.  NoNode is Go's nil.                    *)
(***************************************************************************)
NoNode == [node |-> "nil"]
Identifier(name) == [node |-> "Identifier", Value |-> name]
IntegerLiteral(n) == [node |-> "IntegerLiteral", Value |-> n]
BooleanExpression(b) == [node |-> "BooleanExpression", Value |-> b]
StringLiteral(s) == [node |-> "StringLiteral", Value |-> s]
PrefixExpression(op, right) ==
    [node |-> "PrefixExpression", Operator |-> op, Right |-> right]
InfixExpression(left, op, right) ==
    [node |-> "InfixExpression", Left |-> left, Operator |-> op, Right |-> right]
BlockStatement(stmts) == [node |-> "BlockStatement", Statements |-> stmts]
IfExpression(cond, cons, alt) ==
    [node |-> "IfExpression", Condition |-> cond, Consequence |-> cons,
     Alternative |-> alt]
FunctionLiteralExpression(params, body) ==
    [node |-> "FunctionLiteralExpression", Parameters |-> params, Body |-> body]
FunctionCallExpression(fn, params) ==
    [node |-> "FunctionCallExpression", Function |-> fn, Parameters |-> params]
LetStatement(name, value) ==
    [node |-> "LetStatement", Name |-> Identifier(name), Value |-> value]
ReturnStatement(value) == [node |-> "ReturnStatement", ReturnValue |-> value]
ExpressionStatement(e) == [node |-> "ExpressionStatement", Expression |-> e]
ArrayLiteral(elements) == [node |-> "ArrayLiteral", Elements |-> elements]
IndexingExpression(target, index) ==
    [node |-> "IndexingExpression", Target |-> target, Index |-> index]
\* Pairs is a Go map from key expression to value expression; here the
\* sequence of its entries <<key, value>>, in the order of the source text
HashLiteral(pairs) == [node |-> "HashLiteral", Pairs |-> pairs]
Program(stmts) == [node |-> "Program", Statements |-> stmts]

(***************************************************************************)
(* Objects (package object).  Every object carries the address it was      *)
(* allocated at: Go compares objects by pointer.  NIL is the nil           *)
(* interface; PANIC is not an object but the outcome "the host aborted".   *)
(***************************************************************************)
NIL == [type |-> "nil", addr |-> 0]
NULL == [type |-> "NULL", addr |-> 1]
TRUE_ == [type |-> "BOOLEAN", Value |-> TRUE, addr |-> 2]
FALSE_ == [type |-> "BOOLEAN", Value |-> FALSE, addr |-> 3]
\* the first address a run-time allocation gets (after NULL, TRUE, FALSE)
FirstAddr == 4
Panic(msg) == [type |-> "PANIC", Message |-> msg, addr |-> 0]

IsNil(obj) == obj.type = "nil"
IsPanic(obj) == obj.type = "PANIC"

\* A result of an evaluation step: the value and the store after it.
Ret(v, st) == [val |-> v, st |-> st]

\* &object.T{...}: a fresh object at the next address
Alloc(obj, st) ==
    Ret(obj @@ [addr |-> st.next], [st EXCEPT !.next = @ + 1])

\* fmt's %T of an object
GoTypeName(obj) ==
    CASE obj.type = "nil" -> "<nil>"
      [] obj.type = "INTEGER" -> "*object.Integer"
      [] obj.type = "BOOLEAN" -> "*object.Boolean"
      [] obj.type = "NULL" -> "*object.Null"
      [] obj.type = "STRING" -> "*object.String"
      [] obj.type = "RETURN_VALUE" -> "*object.ReturnValue"
      [] obj.type = "ERROR" -> "*object.Error"
      [] obj.type = "FUNCTION" -> "*object.Function"
      [] obj.type = "ARRAY" -> "*object.Array"
      [] obj.type = "HASH" -> "*object.Hash"
      [] OTHER -> "*object.Object"

(***************************************************************************)
(* Environment (package object).                                           *)
(***************************************************************************)
\* the environment no environment encloses
NoEnv == 0

NewEnvironment(st) ==
    [env |-> Len(st.heap) + 1,
     st |-> [st EXCEPT !.heap = Append(@, [store |-> <<>>, outer |-> NoEnv])]]

NewEnclosedEnvironment(outer, st) ==
    [env |-> Len(st.heap) + 1,
     st |-> [st EXCEPT !.heap = Append(@, [store |-> <<>>, outer |-> outer])]]

RECURSIVE EnvGet(_, _, _)
\* (value, found): the innermost binding of name, climbing to the parent on a miss
EnvGet(h, env, name) ==
    IF name \in DOMAIN h[env].store
    THEN [val |-> h[env].store[name], ok |-> TRUE]
    ELSE IF h[env].outer # NoEnv
         THEN EnvGet(h, h[env].outer, name)
         ELSE [val |-> NIL, ok |-> FALSE]

\* writes the innermost scope, whether or not the name is bound there
EnvSet(st, env, name, val) ==
    [st EXCEPT !.heap[env].store =
        [n \in (DOMAIN @) \cup {name} |-> IF n = name THEN val ELSE @[n]]]

(***************************************************************************)
(* Evaluation log (ghost).  Every Eval call appends, when it returns, the   *)
(* node it evaluated, the child position (`role`) the caller evaluated it   *)
(* in, the environment, and the object it returned: its type, its address,  *)
(* and in `aux` the address of the wrapped value of a ReturnValue or the    *)
(* captured environment of a Function.  evalLetStatement's env.Set,         *)
(* extendFunctionEnv's new environment (in `env`, with the function        *)
(* applied as the object) and applyFunction's return are logged too.  The   *)
(* log changes no result.                                                   *)
(***************************************************************************)
Aux(val) ==
    CASE val.type = "RETURN_VALUE" -> val.Value.addr
      [] val.type = "FUNCTION" -> val.Env
      [] OTHER -> 0

Event(role, kind, val, env) ==
    [role |-> role, node |-> kind, type |-> val.type, addr |-> val.addr,
     env |-> env, aux |-> Aux(val)]

\* the event of an operation on evaluated operands: the operands, in `args`,
\* the object it returned, in `val`, and the backing arrays at that moment
OpEvent(role, kind, args, val, env, st) ==
    Event(role, kind, val, env) @@ [args |-> args, val |-> val, mem |-> st.mem]

\* appends the event, stamped with the number of user-function applications
\* it happened inside
Log(st, ev) == [st EXCEPT !.log = Append(@, ev @@ [depth |-> st.depth])]

\* the operation's result, with its event logged unless it aborted
Logged(r, role, kind, args, env) ==
    IF IsPanic(r.val) THEN r
    ELSE Ret(r.val, Log(r.st, OpEvent(role, kind, args, r.val, env, r.st)))

(***************************************************************************)
(* package evaluator                                                       *)
(***************************************************************************)
newError(msg, st) == Alloc([type |-> "ERROR", Message |-> msg], st)

isError(obj) == IF IsNil(obj) THEN FALSE ELSE obj.type = "ERROR"

\* nativeBoolToBooleanObject handing out a Boolean object of its own for
\* false, not the FALSE singleton
nativeBoolToBooleanObject_Copy(b) ==
    IF b THEN TRUE_ ELSE [FALSE_ EXCEPT !.addr = -6]

nativeBoolToBooleanObject(b) == IF b THEN TRUE_ ELSE FALSE_

evalBangOperatorExpression(exp) ==
    CASE exp.addr = TRUE_.addr -> FALSE_
      [] exp.addr = FALSE_.addr -> TRUE_
      [] exp.addr = NULL.addr -> TRUE_
      [] OTHER -> FALSE_

evalMinusOperatorExpression(exp, st) ==
    IF IsNil(exp) THEN Ret(Panic("nil pointer dereference"), st)
    ELSE IF exp.type # "INTEGER"
    THEN newError("unkown operator: -" \o exp.type, st)
    ELSE Alloc([type |-> "INTEGER", Value |-> 0 - exp.Value], st)

evalPrefixExpression(operator, right, st) ==
    CASE operator = "!" -> Ret(evalBangOperatorExpression(right), st)
      [] operator = "-" -> evalMinusOperatorExpression(right, st)
      [] OTHER ->
            IF IsNil(right) THEN Ret(Panic("nil pointer dereference"), st)
            ELSE newError("unkown operator: " \o operator \o right.type, st)

\* Go's integer division truncates toward zero
GoQuot(a, b) ==
    IF (a >= 0) = (b >= 0)
    THEN (IF a >= 0 THEN a ELSE 0 - a) \div (IF b >= 0 THEN b ELSE 0 - b)
    ELSE 0 - ((IF a >= 0 THEN a ELSE 0 - a) \div (IF b >= 0 THEN b ELSE 0 - b))

\* evalIntegerInfixOperator comparing the operands as objects, as the
\* `==` and `!=` cases of evalInfixExpression do
evalIntegerInfixOperator_ByIdentity(left, operator, right, st) ==
    CASE operator = "+" ->
            Alloc([type |-> "INTEGER", Value |-> left.Value + right.Value], st)
      [] operator = "-" ->
            Alloc([type |-> "INTEGER", Value |-> left.Value - right.Value], st)
      [] operator = "*" ->
            Alloc([type |-> "INTEGER", Value |-> left.Value * right.Value], st)
      [] operator = "/" ->
            IF right.Value = 0
            THEN Ret(Panic("integer divide by zero"), st)
            ELSE Alloc([type |-> "INTEGER",
                      Value |-> GoQuot(left.Value, right.Value)], st)
      [] operator = "==" ->
            Ret(nativeBoolToBooleanObject(left.addr = right.addr), st)
      [] operator = "!=" ->
            Ret(nativeBoolToBooleanObject(left.addr # right.addr), st)
      [] operator = ">" ->
            Ret(nativeBoolToBooleanObject(left.Value > right.Value), st)
      [] operator = "<" ->
            Ret(nativeBoolToBooleanObject(left.Value < right.Value), st)
      [] OTHER ->
            newError("unkown operator: " \o left.type \o " " \o operator
                     \o " " \o right.type, st)

evalIntegerInfixOperator(left, operator, right, st) ==
    CASE operator = "+" ->
            Alloc([type |-> "INTEGER", Value |-> left.Value + right.Value], st)
      [] operator = "-" ->
            Alloc([type |-> "INTEGER", Value |-> left.Value - right.Value], st)
      [] operator = "*" ->
            Alloc([type |-> "INTEGER", Value |-> left.Value * right.Value], st)
      [] operator = "/" ->
            IF right.Value = 0
            THEN Ret(Panic("integer divide by zero"), st)
            ELSE Alloc([type |-> "INTEGER",
                      Value |-> GoQuot(left.Value, right.Value)], st)
      [] operator = "==" ->
            Ret(nativeBoolToBooleanObject(left.Value = right.Value), st)
      [] operator = "!=" ->
            Ret(nativeBoolToBooleanObject(left.Value # right.Value), st)
      [] operator = ">" ->
            Ret(nativeBoolToBooleanObject(left.Value > right.Value), st)
      [] operator = "<" ->
            Ret(nativeBoolToBooleanObject(left.Value < right.Value), st)
      [] OTHER ->
            newError("unkown operator: " \o left.type \o " " \o operator
                     \o " " \o right.type, st)

\* The switch evaluates its cases in order; a case that calls Type() on a nil
\* operand aborts.
evalInfixExpression(left, operator, right, st) ==
    IF IsNil(right) THEN Ret(Panic("nil pointer dereference"), st)
    ELSE IF right.type = "INTEGER" /\ IsNil(left)
    THEN Ret(Panic("nil pointer dereference"), st)
    ELSE IF right.type = "INTEGER" /\ left.type = "INTEGER"
    THEN evalIntegerInfixOperator(left, operator, right, st)
    ELSE IF right.type = "STRING" /\ IsNil(left)
    THEN Ret(Panic("nil pointer dereference"), st)
    ELSE IF right.type = "STRING" /\ left.type = "STRING"
    THEN IF operator = "+"
         THEN Alloc([type |-> "STRING", Value |-> left.Value \o right.Value], st)
         ELSE newError("unkown operator: " \o left.type \o " " \o operator
                       \o " " \o right.type, st)
    ELSE IF operator = "=="
    THEN Ret(nativeBoolToBooleanObject(left.addr = right.addr), st)
    ELSE IF operator = "!="
    THEN Ret(nativeBoolToBooleanObject(left.addr # right.addr), st)
    ELSE IF IsNil(left) THEN Ret(Panic("nil pointer dereference"), st)
    ELSE IF left.type # right.type
    THEN newError("type mismatch: " \o left.type \o " " \o operator
                  \o " " \o right.type, st)
    ELSE newError("unkown operator: " \o left.type \o " " \o operator
                  \o " " \o right.type, st)

(***************************************************************************)
(* Slices.  A slice is a window (off, len, cap) on the backing array       *)
(* mem[base]; the slice []object.Object{} of evalExpressions has none.     *)
(***************************************************************************)
\* s[i], 0 <= i < len(s)
ElementAt(m, sl, i) == m[sl.base][sl.off + i + 1]

\* append(s, v): writes the backing array in place when it has room after
\* the slice, and otherwise copies the elements to a new backing array of
\* twice the capacity (of capacity 1 from an empty one)
append(sl, v, st) ==
    IF sl.len < sl.cap
    THEN [slice |-> [sl EXCEPT !.len = @ + 1],
          st |-> [st EXCEPT !.mem[sl.base][sl.off + sl.len + 1] = v]]
    ELSE LET newcap == IF sl.cap = 0 THEN 1 ELSE 2 * sl.cap
             array == [i \in 1..newcap |->
                          IF i <= sl.len THEN st.mem[sl.base][sl.off + i]
                          ELSE IF i = sl.len + 1 THEN v ELSE NIL]
         IN  [slice |-> [base |-> Len(st.mem) + 1, off |-> 0,
                         len |-> sl.len + 1, cap |-> newcap],
              st |-> [st EXCEPT !.mem = Append(@, array)]]

RECURSIVE appendAll(_, _, _, _)
\* the slice evalExpressions builds by appending vals[i], vals[i+1], ... to sl
appendAll(sl, vals, i, st) ==
    IF i > Len(vals) THEN [slice |-> sl, st |-> st]
    ELSE LET a == append(sl, vals[i], st)
         IN  appendAll(a.slice, vals, i + 1, a.st)

(***************************************************************************)
(* Hash keys (package object): Integer, Boolean and String implement       *)
(* Hashable; the key is the type and the value.                            *)
(***************************************************************************)
Hashable(obj) == obj.type \in {"INTEGER", "BOOLEAN", "STRING"}

HashKey(obj) ==
    CASE obj.type = "INTEGER" -> "INTEGER:" \o ToString(obj.Value)
      [] obj.type = "BOOLEAN" -> IF obj.Value THEN "BOOLEAN:1" ELSE "BOOLEAN:0"
      [] obj.type = "STRING" -> "STRING:" \o obj.Value

(***************************************************************************)
(* builtins.go                                                             *)
(***************************************************************************)
\* the ` around the builtin's name in a message: a string of this module
\* cannot hold that character, an apostrophe stands for it
Backquote == "'"

wrongNumberOfArguments(expected, args, st) ==
    newError("wrong number of arguments. expected=" \o ToString(expected)
             \o " got=" \o ToString(Len(args)), st)

\* the default case of a builtin's type switch; Type() of a nil argument aborts
notSupported(name, arg, st) ==
    IF IsNil(arg) THEN Ret(Panic("nil pointer dereference"), st)
    ELSE newError("argument to " \o Backquote \o name \o Backquote
                  \o " not supported, got " \o arg.type, st)

push(args, st) ==
    IF Len(args) # 2 THEN wrongNumberOfArguments(2, args, st)
    ELSE IF args[1].type = "ARRAY"
    THEN LET a == append(args[1].Elements, args[2], st)
         IN  Alloc([type |-> "ARRAY", Elements |-> a.slice], a.st)
    ELSE notSupported("push", args[1], st)

len(args, st) ==
    IF Len(args) # 1 THEN wrongNumberOfArguments(1, args, st)
    ELSE IF args[1].type = "STRING"
    THEN Alloc([type |-> "INTEGER", Value |-> Len(args[1].Value)], st)
    ELSE IF args[1].type = "ARRAY"
    THEN Alloc([type |-> "INTEGER", Value |-> args[1].Elements.len], st)
    ELSE notSupported("len", args[1], st)

first(args, st) ==
    IF Len(args) # 1 THEN wrongNumberOfArguments(1, args, st)
    ELSE IF args[1].type = "ARRAY"
    THEN IF args[1].Elements.len = 0 THEN Ret(NULL, st)
         ELSE Ret(ElementAt(st.mem, args[1].Elements, 0), st)
    ELSE notSupported("first", args[1], st)

last(args, st) ==
    IF Len(args) # 1 THEN wrongNumberOfArguments(1, args, st)
    ELSE IF args[1].type = "ARRAY"
    THEN IF args[1].Elements.len = 0 THEN Ret(NULL, st)
         ELSE Ret(ElementAt(st.mem, args[1].Elements,
                            args[1].Elements.len - 1), st)
    ELSE notSupported("last", args[1], st)

rest(args, st) ==
    IF Len(args) # 1 THEN wrongNumberOfArguments(1, args, st)
    ELSE IF args[1].type = "ARRAY"
    THEN IF args[1].Elements.len < 2 THEN Ret(NULL, st)
         ELSE Alloc([type |-> "ARRAY",
                     Elements |-> [args[1].Elements EXCEPT   \* Elements[1:]
                                      !.off = @ + 1, !.len = @ - 1,
                                      !.cap = @ - 1]], st)
    ELSE notSupported("rest", args[1], st)

\* the registry: one Builtin object per name, allocated before any evaluation
builtins ==
    [name \in {"push", "len", "first", "last", "rest"} |->
        [type |-> "BUILTIN", Fn |-> name,
         addr |-> CASE name = "push" -> -1 [] name = "len" -> -2
                    [] name = "first" -> -3 [] name = "last" -> -4
                    [] name = "rest" -> -5]]

\* fn.Fn(args...)
callBuiltin(fn, args, st) ==
    CASE fn.Fn = "push" -> push(args, st)
      [] fn.Fn = "len" -> len(args, st)
      [] fn.Fn = "first" -> first(args, st)
      [] fn.Fn = "last" -> last(args, st)
      [] fn.Fn = "rest" -> rest(args, st)

\* isTruthy with the integer 0 falsy as well
isTruthy_ZeroIsFalsy(obj) ==
    CASE obj.addr = TRUE_.addr -> TRUE
      [] obj.addr = FALSE_.addr -> FALSE
      [] obj.addr = NULL.addr -> FALSE
      [] obj.type = "INTEGER" /\ obj.Value = 0 -> FALSE
      [] OTHER -> TRUE

isTruthy(obj) ==
    CASE obj.addr = TRUE_.addr -> TRUE
      [] obj.addr = FALSE_.addr -> FALSE
      [] obj.addr = NULL.addr -> FALSE
      [] OTHER -> TRUE

\* evalIdentifier looking a name up in the builtins before the environment
evalIdentifier_BuiltinsFirst(ie, env, st) ==
    LET got == EnvGet(st.heap, env, ie.Value)
    IN  IF ie.Value \in DOMAIN builtins THEN Ret(builtins[ie.Value], st)
        ELSE IF got.ok THEN Ret(got.val, st)
        ELSE newError("identifier not found: " \o ie.Value, st)

evalIdentifier(ie, env, st) ==
    LET got == EnvGet(st.heap, env, ie.Value)
    IN  IF got.ok THEN Ret(got.val, st)
        ELSE IF ie.Value \in DOMAIN builtins THEN Ret(builtins[ie.Value], st)
        ELSE newError("identifier not found: " \o ie.Value, st)

\* Prevents a value returned from a function from short-circuiting parent blocks
unwrapReturnValue(obj) ==
    IF obj.type = "RETURN_VALUE" THEN obj.Value ELSE obj

RECURSIVE bindParameters(_, _, _, _, _)
\* the loop of extendFunctionEnv, from parameter i on
bindParameters(params, args, i, env, st) ==
    IF i > Len(params) THEN [env |-> env, st |-> st, ok |-> TRUE]
    ELSE IF i > Len(args) THEN [env |-> env, st |-> st, ok |-> FALSE]
    ELSE bindParameters(params, args, i + 1, env,
                        EnvSet(st, env, params[i].Value, args[i]))

\* extendFunctionEnv with the new environment not enclosed by the function's
extendFunctionEnv_NotEnclosed(fn, args, st) ==
    LET e == NewEnvironment(st)
    IN  bindParameters(fn.Parameters, args, 1, e.env,
                       Log(e.st, OpEvent("extendFunctionEnv", "Function", args,
                                         fn, e.env, e.st)))

extendFunctionEnv(fn, args, st) ==
    LET e == NewEnclosedEnvironment(fn.Env, st)
    IN  bindParameters(fn.Parameters, args, 1, e.env,
                       Log(e.st, OpEvent("extendFunctionEnv", "Function", args,
                                         fn, e.env, e.st)))


RECURSIVE Eval(_, _, _, _)
RECURSIVE EvalNode(_, _, _)
RECURSIVE blockLoop(_, _, _, _, _)
RECURSIVE expressionsLoop(_, _, _, _, _)
RECURSIVE applyFunction(_, _, _)
RECURSIVE evalIndexingExpression(_, _, _)
RECURSIVE hashLoop(_, _, _, _, _, _)
RECURSIVE hashLoop_NoKeyCheck(_, _, _, _, _, _)

\* hashLoop storing every pair, whatever the kind of its key
hashLoop_NoKeyCheck(entries, visit, i, pairs, env, st) ==
    IF i > Len(visit) THEN Alloc([type |-> "HASH", Pairs |-> pairs], st)
    ELSE LET value == Eval(entries[visit[i]][2], env, st, "Hash.Value")
             keyObj == Eval(entries[visit[i]][1], env, value.st, "Hash.Key")
             key == IF Hashable(keyObj.val) THEN HashKey(keyObj.val)
                    ELSE keyObj.val.type
             stored == Log(keyObj.st,
                           OpEvent("HashLiteral.pair", keyObj.val.type,
                                   <<keyObj.val, value.val>>, keyObj.val, env,
                                   keyObj.st))
         IN  IF IsPanic(value.val) THEN value
             ELSE IF IsPanic(keyObj.val) THEN keyObj
             ELSE IF IsNil(keyObj.val)
             THEN Ret(Panic("nil pointer dereference"), keyObj.st)
             ELSE hashLoop(entries, visit, i + 1,
                           [k \in (DOMAIN pairs) \cup {key} |->
                               IF k = key
                               THEN [Key |-> keyObj.val, Value |-> value.val]
                               ELSE pairs[k]],
                           env, stored)

\* the range loop of the HashLiteral case of Eval, from the i-th entry
\* visited on; `pairs` is the map built so far.  The value is evaluated
\* before the key, neither is checked for an Error, and Type() of a nil key
\* aborts.
hashLoop(entries, visit, i, pairs, env, st) ==
    IF i > Len(visit) THEN Alloc([type |-> "HASH", Pairs |-> pairs], st)
    ELSE LET value == Eval(entries[visit[i]][2], env, st, "Hash.Value")
             keyObj == Eval(entries[visit[i]][1], env, value.st, "Hash.Key")
             key == HashKey(keyObj.val)
             stored == Log(keyObj.st,
                           OpEvent("HashLiteral.pair", keyObj.val.type,
                                   <<keyObj.val, value.val>>, keyObj.val, env,
                                   keyObj.st))
         IN  IF IsPanic(value.val) THEN value
             ELSE IF IsPanic(keyObj.val) THEN keyObj
             ELSE IF IsNil(keyObj.val)
             THEN Ret(Panic("nil pointer dereference"), keyObj.st)
             ELSE IF ~Hashable(keyObj.val)
             THEN Logged(newError("Cannot use as key " \o keyObj.val.type,
                                  keyObj.st),
                         "HashLiteral.pair", keyObj.val.type,
                         <<keyObj.val, value.val>>, env)
             ELSE hashLoop(entries, visit, i + 1,
                           [k \in (DOMAIN pairs) \cup {key} |->
                               IF k = key
                               THEN [Key |-> keyObj.val, Value |-> value.val]
                               ELSE pairs[k]],
                           env, stored)

\* blockLoop stopping at a ReturnValue only, as the evaluator did before it
\* had Error objects
blockLoop_ReturnValueOnly(stmts, i, result0, env, st) ==
    IF i > Len(stmts) THEN Ret(result0, st)
    ELSE LET r == Eval(stmts[i], env, st, "Block.Statements")
         IN  IF IsPanic(r.val) THEN r
             ELSE IF ~IsNil(r.val) /\ r.val.type = "RETURN_VALUE"
             THEN r
             ELSE blockLoop(stmts, i + 1, r.val, env, r.st)

\* the loop of evalBlockStatement, from statement i on; result0 is the loop's
\* `result` so far
blockLoop(stmts, i, result0, env, st) ==
    IF i > Len(stmts) THEN Ret(result0, st)
    ELSE LET r == Eval(stmts[i], env, st, "Block.Statements")
         IN  IF IsPanic(r.val) THEN r
             ELSE IF ~IsNil(r.val) /\ r.val.type \in {"RETURN_VALUE", "ERROR"}
             THEN r
             ELSE blockLoop(stmts, i + 1, r.val, env, r.st)

evalBlockStatement(blockStatement, env, st) ==
    blockLoop(blockStatement.Statements, 1, NIL, env, st)

\* the log entry of an if-expression's choice: the branch taken, the
\* condition's value, and whether the expression has an alternative
Choice(ie, branch, condition, env, st) ==
    Log(st, OpEvent("evalIfExpression", branch, <<condition>>, condition, env,
                    st)
            @@ [alternative |-> ie.Alternative.node # "nil"])

evalIfExpression(ie, env, st) ==
    LET c == Eval(ie.Condition, env, st, "If.Condition")
    IN  IF IsPanic(c.val) \/ isError(c.val) THEN c
        ELSE IF isTruthy(c.val)
        THEN Eval(ie.Consequence, env,
                  Choice(ie, "Consequence", c.val, env, c.st), "If.Consequence")
        ELSE IF ie.Alternative.node # "nil"
        THEN Eval(ie.Alternative, env,
                  Choice(ie, "Alternative", c.val, env, c.st), "If.Alternative")
        ELSE Ret(NULL, Choice(ie, "NULL", c.val, env, c.st))

evalReturnStatement(rs, env, st) ==
    LET v == Eval(rs.ReturnValue, env, st, "Return.ReturnValue")
    IN  IF IsPanic(v.val) \/ isError(v.val) THEN v
        ELSE Alloc([type |-> "RETURN_VALUE", Value |-> v.val], v.st)

\* evalLetStatement writing the enclosing scope, when there is one
evalLetStatement_Enclosing(ls, env, st) ==
    LET v == Eval(ls.Value, env, st, "Let.Value")
        scope == IF st.heap[env].outer # NoEnv THEN st.heap[env].outer ELSE env
    IN  IF IsPanic(v.val) \/ isError(v.val) THEN v
        ELSE Ret(v.val,
                 Log(EnvSet(v.st, scope, ls.Name.Value, v.val),
                     Event("env.Set", ls.Name.Value, v.val, env)))

evalLetStatement(ls, env, st) ==
    LET v == Eval(ls.Value, env, st, "Let.Value")
    IN  IF IsPanic(v.val) \/ isError(v.val) THEN v
        ELSE Ret(v.val,
                 Log(EnvSet(v.st, env, ls.Name.Value, v.val),
                     Event("env.Set", ls.Name.Value, v.val, env)))

\* expressionsLoop going on after an Error: the Error is collected like a
\* value and the expressions after it are evaluated too
expressionsLoop_PastErrors(exps, i, results, env, st) ==
    IF i > Len(exps) THEN [vals |-> results, st |-> st, panic |-> FALSE]
    ELSE LET r == Eval(exps[i], env, st, "evalExpressions")
         IN  IF IsPanic(r.val)
             THEN [vals |-> <<r.val>>, st |-> r.st, panic |-> TRUE]
             ELSE expressionsLoop(exps, i + 1, Append(results, r.val), env, r.st)

\* the loop of evalExpressions, from expression i on
expressionsLoop(exps, i, results, env, st) ==
    IF i > Len(exps) THEN [vals |-> results, st |-> st, panic |-> FALSE]
    ELSE LET r == Eval(exps[i], env, st, "evalExpressions")
         IN  IF IsPanic(r.val)
             THEN [vals |-> <<r.val>>, st |-> r.st, panic |-> TRUE]
             ELSE IF isError(r.val)
             THEN [vals |-> <<r.val>>, st |-> r.st, panic |-> FALSE]
             ELSE expressionsLoop(exps, i + 1, Append(results, r.val), env, r.st)

evalExpressions(expressions, env, st) ==
    expressionsLoop(expressions, 1, <<>>, env, st)

applyFunction(fn, args, st) ==
    IF ~IsNil(fn) /\ fn.type = "FUNCTION"
    THEN LET closure == extendFunctionEnv(fn, args, st)
         IN  IF ~closure.ok
             THEN Ret(Panic("index out of range"), closure.st)
             ELSE IF closure.st.depth >= MaxCallDepth
             THEN Ret(Panic("stack overflow"), closure.st)
             ELSE LET evaluated ==
                          Eval(fn.Body, closure.env,
                               [closure.st EXCEPT !.depth = @ + 1],
                               "Function.Body")
                      back == [evaluated.st EXCEPT !.depth = @ - 1]
                  IN  IF IsPanic(evaluated.val) THEN evaluated
                      ELSE LET out == unwrapReturnValue(evaluated.val)
                           IN  Ret(out, Log(back, Event("applyFunction",
                                       "Function", out, closure.env)))
    ELSE IF ~IsNil(fn) /\ fn.type = "BUILTIN"
    THEN Logged(callBuiltin(fn, args,
                            Log(st, OpEvent("Builtin.call", fn.Fn, args, fn,
                                            NoEnv, st))),
                "Builtin.Fn", fn.Fn, args, NoEnv)
    ELSE newError("not a function: " \o GoTypeName(fn), st)

\* the IndexingExpression case of Eval.  An element the slice does not
\* hold is never read: Go checks the index against the length.  For a key it
\* does not hold, the map of a Hash yields the zero HashPair, whose Value is
\* nil.
evalIndexingExpression(node, env, st) ==
    LET target == Eval(node.Target, env, st, "Indexing.Target")
        evaluatedIndex == Eval(node.Index, env, target.st, "Indexing.Index")
        index == evaluatedIndex.val
        after == Log(evaluatedIndex.st,
                     OpEvent("Indexing.call", target.val.type,
                             <<target.val, index>>, target.val, env,
                             evaluatedIndex.st))
        indexed ==
            IF IsNil(index) THEN Ret(Panic("nil pointer dereference"), after)
            ELSE IF target.val.type = "ARRAY"
            THEN IF index.type # "INTEGER"
                 THEN newError("Cannot use as index " \o index.type, after)
                 ELSE IF index.Value < 0
                 THEN newError("Cannot index with a negative number "
                               \o ToString(index.Value), after)
                 ELSE IF index.Value >= target.val.Elements.len
                 THEN newError("Index is larger than the max. index="
                               \o ToString(index.Value) \o ", max="
                               \o ToString(target.val.Elements.len - 1), after)
                 ELSE Ret(ElementAt(after.mem, target.val.Elements,
                                    index.Value), after)
            ELSE IF ~Hashable(index)
            THEN newError("Cannot use as index " \o index.type, after)
            ELSE IF HashKey(index) \in DOMAIN target.val.Pairs
            THEN Ret(target.val.Pairs[HashKey(index)].Value, after)
            ELSE Ret(NIL, after)
    IN  IF IsPanic(target.val) THEN target
        ELSE IF IsNil(target.val)
        THEN Ret(Panic("nil pointer dereference"), target.st)
        ELSE IF target.val.type \notin {"ARRAY", "HASH"}
        THEN newError("Cannot index type " \o target.val.type, target.st)
        ELSE IF IsPanic(index) THEN evaluatedIndex
        ELSE Logged(indexed, "Indexing", target.val.type,
                    <<target.val, index>>, env)

\* the type switch of Eval
EvalNode(node, env, st) ==
    CASE node.node = "ExpressionStatement" ->
            Eval(node.Expression, env, st, "ExpressionStatement.Expression")
      [] node.node = "IntegerLiteral" ->
            Alloc([type |-> "INTEGER", Value |-> node.Value], st)
      [] node.node = "BooleanExpression" ->
            Ret(nativeBoolToBooleanObject(node.Value), st)
      [] node.node = "PrefixExpression" ->
            LET right == Eval(node.Right, env, st, "Prefix.Right")
            IN  IF IsPanic(right.val) \/ isError(right.val) THEN right
                ELSE Logged(evalPrefixExpression(node.Operator, right.val,
                                                 right.st),
                            "evalPrefixExpression", node.Operator,
                            <<right.val>>, env)
      [] node.node = "InfixExpression" ->
            LET right == Eval(node.Right, env, st, "Infix.Right")
            IN  IF IsPanic(right.val) \/ isError(right.val) THEN right
                ELSE LET left == Eval(node.Left, env, right.st, "Infix.Left")
                     IN  IF IsPanic(left.val) \/ isError(left.val) THEN left
                         ELSE Logged(evalInfixExpression(left.val,
                                         node.Operator, right.val, left.st),
                                     "evalInfixExpression", node.Operator,
                                     <<left.val, right.val>>, env)
      [] node.node = "IfExpression" -> evalIfExpression(node, env, st)
      [] node.node = "BlockStatement" -> evalBlockStatement(node, env, st)
      [] node.node = "ReturnStatement" -> evalReturnStatement(node, env, st)
      [] node.node = "LetStatement" -> evalLetStatement(node, env, st)
      [] node.node = "Identifier" ->
            Logged(evalIdentifier(node, env, st), "evalIdentifier", node.Value,
                   <<>>, env)
      [] node.node = "FunctionLiteralExpression" ->
            Alloc([type |-> "FUNCTION", Parameters |-> node.Parameters,
                 Body |-> node.Body, Env |-> env], st)
      [] node.node = "FunctionCallExpression" ->
            LET function == Eval(node.Function, env, st, "Call.Function")
            IN  IF IsPanic(function.val) \/ isError(function.val) THEN function
                ELSE LET args == evalExpressions(node.Parameters, env, function.st)
                     IN  IF args.panic THEN Ret(args.vals[1], args.st)
                         ELSE IF Len(args.vals) = 1 /\ isError(args.vals[1])
                         THEN Ret(args.vals[1], args.st)
                         ELSE applyFunction(function.val, args.vals, args.st)
      [] node.node = "StringLiteral" ->
            Alloc([type |-> "STRING", Value |-> node.Value], st)
      [] node.node = "ArrayLiteral" ->
            LET elements == evalExpressions(node.Elements, env, st)
            IN  IF elements.panic THEN Ret(elements.vals[1], elements.st)
                ELSE IF Len(elements.vals) = 1 /\ isError(elements.vals[1])
                THEN Ret(elements.vals[1], elements.st)
                ELSE LET a == appendAll([base |-> 0, off |-> 0, len |-> 0,
                                         cap |-> 0],
                                        elements.vals, 1, elements.st)
                     IN  Alloc([type |-> "ARRAY", Elements |-> a.slice], a.st)
      [] node.node = "HashLiteral" ->
            hashLoop(node.Pairs,
                     SelectSeq(st.order, LAMBDA k : k <= Len(node.Pairs)),
                     1, <<>>, env, st)
      [] node.node = "IndexingExpression" ->
            evalIndexingExpression(node, env, st)
      [] OTHER -> Ret(NIL, st)

\* Eval, with the log entry of its return
Eval(node, env, st, role) ==
    LET r == EvalNode(node, env, st)
    IN  IF IsPanic(r.val) THEN r
        ELSE Ret(r.val, Log(r.st, Event(role, node.node, r.val, env)))


(***************************************************************************)
(* evalProgram.  The caller hands Eval a Program and a fresh environment    *)
(* (GlobalEnv); each iteration of the loop evaluates the next statement,    *)
(* here any statement of Pool.                                              *)
(***************************************************************************)
\* the environment the caller creates with NewEnvironment() and hands to Eval
GlobalEnv == 1

\* the switch on the statement's result: where the loop goes and what
\* evalProgram would return
programSwitch(val) ==
    CASE val.type = "PANIC" -> [pc |-> "panic", result |-> val]
      [] val.type = "RETURN_VALUE" -> [pc |-> "returned", result |-> val.Value]
      [] val.type = "ERROR" -> [pc |-> "returned", result |-> val]
      [] OTHER -> [pc |-> "loop", result |-> val]

Num(n) == IntegerLiteral(n)
Var(x) == Identifier(x)
Expr(e) == ExpressionStatement(e)
Block(stmts) == BlockStatement(stmts)
Fn(params, stmts) == FunctionLiteralExpression(params, BlockStatement(stmts))
Call(f, args) == FunctionCallExpression(f, args)
If(c, stmts) == IfExpression(c, BlockStatement(stmts), NoNode)
IfElse(c, stmts, alt) ==
    IfExpression(c, BlockStatement(stmts), BlockStatement(alt))
Not(e) == PrefixExpression("!", e)
Str(x) == StringLiteral(x)
At(target, index) == Expr(IndexingExpression(target, index))
Bin(l, op, r) == InfixExpression(l, op, r)

\* The statements programs are made of.
Pool == <<
    \* 1: let f = fn() { return 1; };
    LetStatement("f", Fn(<<>>, <<ReturnStatement(Num(1))>>)),
    \* 2: f();
    Expr(Call(Var("f"), <<>>)),
    \* 3: 2
    Expr(Num(2)),
    \* 4: if (10 > 1) { if (10 > 1) { return 10; } return 1; }
    Expr(If(Bin(Num(10), ">", Num(1)),
            <<Expr(If(Bin(Num(10), ">", Num(1)), <<ReturnStatement(Num(10))>>)),
              ReturnStatement(Num(1))>>)),
    \* 5: return 5;
    ReturnStatement(Num(5)),
    \* 6: let z = 9;
    LetStatement("z", Num(9)),
    \* 7: let adder = fn(x) { fn(y) { x + y } };
    LetStatement("adder",
        Fn(<<Var("x")>>, <<Expr(Fn(<<Var("y")>>,
                                  <<Expr(Bin(Var("x"), "+", Var("y")))>>))>>)),
    \* 8: adder(2)(3)
    Expr(Call(Call(Var("adder"), <<Num(2)>>), <<Num(3)>>)),
    \* 9: 5 + true;
    Expr(Bin(Num(5), "+", BooleanExpression(TRUE))),
    \* 10: let g = fn() { return if (true) { return 1; } };
    LetStatement("g",
        Fn(<<>>, <<ReturnStatement(
                     If(BooleanExpression(TRUE), <<ReturnStatement(Num(1))>>))>>)),
    \* 11: g();
    Expr(Call(Var("g"), <<>>)),
    \* 12: if (true) {}
    Expr(If(BooleanExpression(TRUE), <<>>)),
    \* 13: fn(){}()
    Expr(Call(Fn(<<>>, <<>>), <<>>)),
    \* 14: 5 / 0
    Expr(Bin(Num(5), "/", Num(0))),
    \* 15: let x = 1;
    LetStatement("x", Num(1)),
    \* 16: let h = fn() { x };
    LetStatement("h", Fn(<<>>, <<Expr(Var("x"))>>)),
    \* 17: fn(x) { h() }(2)
    Expr(Call(Fn(<<Var("x")>>, <<Expr(Call(Var("h"), <<>>))>>), <<Num(2)>>)),
    \* 18: let y = foobar;
    LetStatement("y", Var("foobar")),
    \* 19: if (true) { let a = 1; -true; let b = 2; }
    Expr(If(BooleanExpression(TRUE),
            <<LetStatement("a", Num(1)),
              Expr(PrefixExpression("-", BooleanExpression(TRUE))),
              LetStatement("b", Num(2))>>)),
    \* 20: if (foobar) { let c = 1; }
    Expr(If(Var("foobar"), <<LetStatement("c", Num(1))>>)),
    \* 21: return "Hello" - "World";
    ReturnStatement(Bin(StringLiteral("Hello"), "-", StringLiteral("World"))),
    \* 22: foobar(z)
    Expr(Call(Var("foobar"), <<Var("z")>>)),
    \* 23: !(-true) + (true + false)
    Expr(Bin(PrefixExpression("!", PrefixExpression("-", BooleanExpression(TRUE))),
             "+", Bin(BooleanExpression(TRUE), "+", BooleanExpression(FALSE)))),
    \* 24: -foobar + 1
    Expr(Bin(PrefixExpression("-", Var("foobar")), "+", Num(1))),
    \* 25: !if (true) { return 5; }
    Expr(PrefixExpression("!", If(BooleanExpression(TRUE),
                                  <<ReturnStatement(Num(5))>>))),
    \* 26: 5 == true
    Expr(Bin(Num(5), "==", BooleanExpression(TRUE))),
    \* 27: 5 != true
    Expr(Bin(Num(5), "!=", BooleanExpression(TRUE))),
    \* 28: "a" == "a"
    Expr(Bin(StringLiteral("a"), "==", StringLiteral("a"))),
    \* 29: "a" != "b"
    Expr(Bin(StringLiteral("a"), "!=", StringLiteral("b"))),
    \* 30: 1 == 1
    Expr(Bin(Num(1), "==", Num(1))),
    \* 31: 1 != 2
    Expr(Bin(Num(1), "!=", Num(2))),
    \* 32: let n = 7;
    LetStatement("n", Num(7)),
    \* 33: n == n
    Expr(Bin(Var("n"), "==", Var("n"))),
    \* 34: n != 7
    Expr(Bin(Var("n"), "!=", Num(7))),
    \* 35: true < 5
    Expr(Bin(BooleanExpression(TRUE), "<", Num(5))),
    \* 36: fn(x, y) { x }(1)
    Expr(Call(Fn(<<Var("x"), Var("y")>>, <<Expr(Var("x"))>>), <<Num(1)>>)),
    \* 37: fn(x, y) { y }(1)
    Expr(Call(Fn(<<Var("x"), Var("y")>>, <<Expr(Var("y"))>>), <<Num(1)>>)),
    \* 38: !0
    Expr(Not(Num(0))),
    \* 39: !""
    Expr(Not(StringLiteral(""))),
    \* 40: ![]
    Expr(Not(ArrayLiteral(<<>>))),
    \* 41: !false
    Expr(Not(BooleanExpression(FALSE))),
    \* 42: !!true
    Expr(Not(Not(BooleanExpression(TRUE)))),
    \* 43: !if (false) { 1 }
    Expr(Not(If(BooleanExpression(FALSE), <<Expr(Num(1))>>))),
    \* 44: if (0) { 1 } else { 2 }
    Expr(IfElse(Num(0), <<Expr(Num(1))>>, <<Expr(Num(2))>>)),
    \* 45: if ("") { 1 }
    Expr(If(StringLiteral(""), <<Expr(Num(1))>>)),
    \* 46: if ([]) { 1 } else { 2 }
    Expr(IfElse(ArrayLiteral(<<>>), <<Expr(Num(1))>>, <<Expr(Num(2))>>)),
    \* 47: if (false) { 1 }
    Expr(If(BooleanExpression(FALSE), <<Expr(Num(1))>>)),
    \* 48: if (1 > 2) { 1 } else { 2 }
    Expr(IfElse(Bin(Num(1), ">", Num(2)), <<Expr(Num(1))>>, <<Expr(Num(2))>>)),
    \* 49: if (if (false) { 1 }) { 1 } else { 2 }
    Expr(IfElse(If(BooleanExpression(FALSE), <<Expr(Num(1))>>),
                <<Expr(Num(1))>>, <<Expr(Num(2))>>)),
    \* 50: let t = !5;
    LetStatement("t", Not(Num(5))),
    \* 51: if (t) { 1 } else { !t }
    Expr(IfElse(Var("t"), <<Expr(Num(1))>>, <<Expr(Not(Var("t")))>>)),
    \* 52: let len = 1;
    LetStatement("len", Num(1)),
    \* 53: len
    Expr(Var("len")),
    \* 54: fn(first) { first }(3)
    Expr(Call(Fn(<<Var("first")>>, <<Expr(Var("first"))>>), <<Num(3)>>)),
    \* 55: fn(x) { if (x) { rest } else { foobar } }(len)
    Expr(Call(Fn(<<Var("x")>>,
                 <<Expr(IfElse(Var("x"), <<Expr(Var("rest"))>>,
                               <<Expr(Var("foobar"))>>))>>),
              <<Var("len")>>)),
    \* 56: len("barr")
    Expr(Call(Var("len"), <<StringLiteral("barr")>>)),
    \* 57: len(1)
    Expr(Call(Var("len"), <<Num(1)>>)),
    \* 58: len("one", "two")
    Expr(Call(Var("len"), <<StringLiteral("one"), StringLiteral("two")>>)),
    \* 59: first([])
    Expr(Call(Var("first"), <<ArrayLiteral(<<>>)>>)),
    \* 60: last([])
    Expr(Call(Var("last"), <<ArrayLiteral(<<>>)>>)),
    \* 61: rest([1])
    Expr(Call(Var("rest"), <<ArrayLiteral(<<Num(1)>>)>>)),
    \* 62: push(1, 1)
    Expr(Call(Var("push"), <<Num(1), Num(1)>>)),
    \* 63: push([1])
    Expr(Call(Var("push"), <<ArrayLiteral(<<Num(1)>>)>>)),
    \* 64: last(rest(push([1], 2)))
    Expr(Call(Var("last"),
              <<Call(Var("rest"),
                     <<Call(Var("push"), <<ArrayLiteral(<<Num(1)>>), Num(2)>>)>>)>>)),
    \* 65: first(rest, 1, 2)
    Expr(Call(Var("first"), <<Var("rest"), Num(1), Num(2)>>)),
    \* 66: len(if (true) {})
    Expr(Call(Var("len"), <<If(BooleanExpression(TRUE), <<>>)>>)),
    \* 67: first(len([1, 2]))
    Expr(Call(Var("first"),
              <<Call(Var("len"), <<ArrayLiteral(<<Num(1), Num(2)>>)>>)>>)),
    \* 68: let a = [1, 2, 3];
    LetStatement("a", ArrayLiteral(<<Num(1), Num(2), Num(3)>>)),
    \* 69: let b = push(a, 4);
    LetStatement("b", Call(Var("push"), <<Var("a"), Num(4)>>)),
    \* 70: if (true) { let c = push(a, 5); b[3] }
    Expr(If(BooleanExpression(TRUE),
            <<LetStatement("c", Call(Var("push"), <<Var("a"), Num(5)>>)),
              Expr(IndexingExpression(Var("b"), Num(3)))>>)),
    \* 71: let d = push(rest(a), 6);
    LetStatement("d", Call(Var("push"),
                           <<Call(Var("rest"), <<Var("a")>>), Num(6)>>)),
    \* 72: let a = push(a, 7);
    LetStatement("a", Call(Var("push"), <<Var("a"), Num(7)>>)),
    \* 73: a[3]
    Expr(IndexingExpression(Var("a"), Num(3))),
    \* 74: a[-1]
    Expr(IndexingExpression(Var("a"), PrefixExpression("-", Num(1)))),
    \* 75: a[1 + 1]
    Expr(IndexingExpression(Var("a"), Bin(Num(1), "+", Num(1)))),
    \* 76: [1, 2, 3]["x"]
    Expr(IndexingExpression(ArrayLiteral(<<Num(1), Num(2), Num(3)>>),
                            StringLiteral("x"))),
    \* 77: [1, 2, 3][fn(){}()]
    Expr(IndexingExpression(ArrayLiteral(<<Num(1), Num(2), Num(3)>>),
                            Call(Fn(<<>>, <<>>), <<>>))),
    \* 78: [][0]
    Expr(IndexingExpression(ArrayLiteral(<<>>), Num(0))),
    \* 79: rest(a)[1]
    Expr(IndexingExpression(Call(Var("rest"), <<Var("a")>>), Num(1))),
    \* 80: let h = {"a": 1, 2: true};
    LetStatement("h", HashLiteral(<<<<Str("a"), Num(1)>>,
                                    <<Num(2), BooleanExpression(TRUE)>>>>)),
    \* 81: h["a"]
    At(Var("h"), Str("a")),
    \* 82: h["b"]
    At(Var("h"), Str("b")),
    \* 83: h[1 + 1]
    At(Var("h"), Bin(Num(1), "+", Num(1))),
    \* 84: {true: 1}[true]
    At(HashLiteral(<<<<BooleanExpression(TRUE), Num(1)>>>>),
       BooleanExpression(TRUE)),
    \* 85: {fn(x) { x }: 1}
    Expr(HashLiteral(<<<<Fn(<<Var("x")>>, <<Expr(Var("x"))>>), Num(1)>>>>)),
    \* 86: {1: 2, []: 1}
    Expr(HashLiteral(<<<<Num(1), Num(2)>>, <<ArrayLiteral(<<>>), Num(1)>>>>)),
    \* 87: {{}: 1}
    Expr(HashLiteral(<<<<HashLiteral(<<>>), Num(1)>>>>)),
    \* 88: {if (false) { 1 }: 1}
    Expr(HashLiteral(<<<<If(BooleanExpression(FALSE), <<Expr(Num(1))>>),
                         Num(1)>>>>)),
    \* 89: h[fn(x) { x }]
    At(Var("h"), Fn(<<Var("x")>>, <<Expr(Var("x"))>>)),
    \* 90: h[[1]]
    At(Var("h"), ArrayLiteral(<<Num(1)>>)),
    \* 91: {"a": 1}[{}]
    At(HashLiteral(<<<<Str("a"), Num(1)>>>>), HashLiteral(<<>>)),
    \* 92: h[if (false) { 1 }]
    At(Var("h"), If(BooleanExpression(FALSE), <<Expr(Num(1))>>)),
    \* 93: {1: 1}[3]
    At(HashLiteral(<<<<Num(1), Num(1)>>>>), Num(3)),
    \* 94: {"k": 1, "k": 2}["k"]
    At(HashLiteral(<<<<Str("k"), Num(1)>>, <<Str("k"), Num(2)>>>>), Str("k")),
    \* 95: {len: 1}
    Expr(HashLiteral(<<<<Var("len"), Num(1)>>>>)),
    \* 96: true == true
    Expr(Bin(BooleanExpression(TRUE), "==", BooleanExpression(TRUE))),
    \* 97: false == false
    Expr(Bin(BooleanExpression(FALSE), "==", BooleanExpression(FALSE))),
    \* 98: (1 < 2) == true
    Expr(Bin(Bin(Num(1), "<", Num(2)), "==", BooleanExpression(TRUE))),
    \* 99: true == false
    Expr(Bin(BooleanExpression(TRUE), "==", BooleanExpression(FALSE))),
    \* 100: !true == false
    Expr(Bin(Not(BooleanExpression(TRUE)), "==", BooleanExpression(FALSE))),
    \* 101: (1 == 1) != (2 != 2)
    Expr(Bin(Bin(Num(1), "==", Num(1)), "!=", Bin(Num(2), "!=", Num(2)))),
    \* 102: let t = 1 > 2;
    LetStatement("t", Bin(Num(1), ">", Num(2))),
    \* 103: t == !(!t)
    Expr(Bin(Var("t"), "==", Not(Not(Var("t"))))),
    \* 104: (t != false) == (1 != 1)
    Expr(Bin(Bin(Var("t"), "!=", BooleanExpression(FALSE)), "==",
             Bin(Num(1), "!=", Num(1)))),
    \* 105: let x = if (true) { return 5 };
    LetStatement("x", If(BooleanExpression(TRUE), <<ReturnStatement(Num(5))>>)),
    \* 106: return if (true) { return 1 };
    ReturnStatement(If(BooleanExpression(TRUE), <<ReturnStatement(Num(1))>>)),
    \* 107: fn(a) { a }(if (true) { return 2 })
    Expr(Call(Fn(<<Var("a")>>, <<Expr(Var("a"))>>),
              <<If(BooleanExpression(TRUE), <<ReturnStatement(Num(2))>>)>>)),
    \* 108: [if (true) { return 3 }]
    Expr(ArrayLiteral(
        <<If(BooleanExpression(TRUE), <<ReturnStatement(Num(3))>>)>>)),
    \* 109: {1: if (true) { return 4 }}
    Expr(HashLiteral(
        <<<<Num(1), If(BooleanExpression(TRUE), <<ReturnStatement(Num(4))>>)>>>>)),
    \* 110: {1: foobar}
    Expr(HashLiteral(<<<<Num(1), Var("foobar")>>>>)),
    \* 111: {foobar: 1}
    Expr(HashLiteral(<<<<Var("foobar"), Num(1)>>>>)),
    \* 112: {1: "a", 1: "b"}[1]
    At(HashLiteral(<<<<Num(1), Str("a")>>, <<Num(1), Str("b")>>>>), Num(1)),
    \* 113: let p = {1: 1, 1: 2}[1];
    LetStatement("p", IndexingExpression(
        HashLiteral(<<<<Num(1), Num(1)>>, <<Num(1), Num(2)>>>>), Num(1))),
    \* 114: let q = {1: 1, 1: 2}[1];
    LetStatement("q", IndexingExpression(
        HashLiteral(<<<<Num(1), Num(1)>>, <<Num(1), Num(2)>>>>), Num(1))),
    \* 115: p == q
    Expr(Bin(Var("p"), "==", Var("q"))),
    \* 116: foobar[0]
    At(Var("foobar"), Num(0)),
    \* 117: [1, 2][foobar]
    At(ArrayLiteral(<<Num(1), Num(2)>>), Var("foobar")),
    \* 118: foo + bar
    Expr(Bin(Var("foo"), "+", Var("bar"))),
    \* 119: nofn(x1)
    Expr(Call(Var("nofn"), <<Var("x1")>>)),
    \* 120: len(u1, v1)
    Expr(Call(Var("len"), <<Var("u1"), Var("v1")>>)),
    \* 121: [u1, v1]
    Expr(ArrayLiteral(<<Var("u1"), Var("v1")>>)),
    \* 122: fn(a, b) { b }(1, 2)
    Expr(Call(Fn(<<Var("a"), Var("b")>>, <<Expr(Var("b"))>>),
              <<Num(1), Num(2)>>)),
    \* 123: 3 - 4
    Expr(Bin(Num(3), "-", Num(4))),
    \* 124: len(1, u1, v1)
    Expr(Call(Var("len"), <<Num(1), Var("u1"), Var("v1")>>)),
    \* 125: [1, u1, v1]
    Expr(ArrayLiteral(<<Num(1), Var("u1"), Var("v1")>>)),
    \* 126: let x = 5;
    LetStatement("x", Num(5)),
    \* 127: fn() { let x = 2; x }()
    Expr(Call(Fn(<<>>, <<LetStatement("x", Num(2)), Expr(Var("x"))>>), <<>>)),
    \* 128: x
    Expr(Var("x")),
    \* 129: fn() { if (true) { let x = 3; }; x }()
    Expr(Call(Fn(<<>>, <<Expr(If(BooleanExpression(TRUE),
                                 <<LetStatement("x", Num(3))>>)),
                         Expr(Var("x"))>>), <<>>)),
    \* 130: let f = fn() { x };
    LetStatement("f", Fn(<<>>, <<Expr(Var("x"))>>)),
    \* 131: f()
    Expr(Call(Var("f"), <<>>)),
    \* 132: let r = fn(n) { if (n < 1) { 0 } else { r(n - 1) } };
    LetStatement("r", Fn(<<Var("n")>>,
        <<Expr(IfElse(Bin(Var("n"), "<", Num(1)), <<Expr(Num(0))>>,
                      <<Expr(Call(Var("r"), <<Bin(Var("n"), "-", Num(1))>>))>>))>>)),
    \* 133: r(1)
    Expr(Call(Var("r"), <<Num(1)>>)),
    \* 134: fn(x) { fn() { let x = 9; x }(); x }(7)
    Expr(Call(Fn(<<Var("x")>>,
                 <<Expr(Call(Fn(<<>>, <<LetStatement("x", Num(9)),
                                        Expr(Var("x"))>>), <<>>)),
                   Expr(Var("x"))>>),
              <<Num(7)>>))
>>

\* The programs are made of statements of one suite: the first 25
\* statements, or the statements about one kind of value.
Suites ==
    <<1..25, 26..37, 38..51, 52..67, 68..79, 96..104, 105..109, 116..125,
      126..134,
      110..115, 80..95>>
SameSuite(i, j) == \E k \in 1..Len(Suites) : i \in Suites[k] /\ j \in Suites[k]

\* the orders the range loops of statement i can visit the pairs of a hash
\* literal in: any order of up to MaxPairs entries; only the statements of
\* the last two suites hold a hash literal of more than one pair, for the
\* others one order stands for all
Orders(i) ==
    IF i \in Suites[Len(Suites) - 1] \cup Suites[Len(Suites)]
    THEN Permutations(1..MaxPairs)
    ELSE {[k \in 1..MaxPairs |-> k]}

EvalInit ==
    /\ pc = "loop"
    /\ result = NIL
    /\ heap = <<[store |-> <<>>, outer |-> NoEnv]>>
    /\ next = FirstAddr
    /\ prog = <<>>
    /\ trace = <<>>
    /\ mem = <<>>
    \* no parser runs
    /\ input = <<>>
    /\ p = <<>>
    /\ stack = <<>>
    /\ ret = NoNode
    /\ program = NoNode

\* one iteration of evalProgram's loop, on statement Pool[i]; `order` is the
\* order in which this iteration's range loops visit a hash literal's pairs
evalProgramLoop(i, order) ==
    /\ pc = "loop"
    /\ Len(prog) < MaxStmts
    /\ prog # <<>> => SameSuite(prog[1], i)
    /\ LET r == Eval(Pool[i], GlobalEnv,
                     [heap |-> heap, next |-> next, log |-> <<>>, depth |-> 0,
                      mem |-> mem, order |-> order],
                     "Program.Statements")
           sw == programSwitch(r.val)
       IN  /\ pc' = sw.pc
           /\ result' = sw.result
           /\ heap' = r.st.heap
           /\ next' = r.st.next
           /\ trace' = r.st.log
           /\ mem' = r.st.mem
    /\ prog' = Append(prog, i)
    /\ UNCHANGED pvars

\* the statements are exhausted: evalProgram returns `result`
evalProgramReturn ==
    /\ pc = "loop"
    /\ pc' = "returned"
    /\ UNCHANGED <<result, heap, next, prog, trace, mem>>
    /\ UNCHANGED pvars

EvalNext ==
    \/ \E i \in 1..Len(Pool) : \E order \in Orders(i) : evalProgramLoop(i, order)
    \/ evalProgramReturn

EvalSpec == EvalInit /\ [][EvalNext]_vars


(***************************************************************************)
(* Claims about the evaluator (checked under EvalSpec).                     *)
(***************************************************************************)
IsInteger(obj, n) == obj.type = "INTEGER" /\ obj.Value = n
IsErrorMessage(obj, msg) == obj.type = "ERROR" /\ obj.Message = msg
Bound(name) == name \in DOMAIN heap[GlobalEnv].store
LastEvent == trace[Len(trace)]

\* C1: what a call of a user function hands back to its caller is never a
\* ReturnValue wrapper, so a `return` inside the callee never stops the
\* caller: after `let f = fn() { return 1; }; f();` the program goes on, and
\* with `2` as the next statement its value is 2.
C1_CallNeverHandsBackReturnValue ==
    /\ \A i \in 1..Len(trace) :
          trace[i].role = "applyFunction" => trace[i].type # "RETURN_VALUE"
    /\ prog = <<1, 2, 3>> => IsInteger(result, 2)

\* C2: a ReturnValue produced by a `return` (outside any function body) is
\* passed up unchanged: a block whose statement yields it returns that very
\* object at once, every later step of the evaluation is an enclosing node
\* returning it, the program unwraps it and stops with its inner value, and
\* no statement after the `return` is evaluated.  The nested-if example
\* yields 10 and `return 5; ...` yields 5.
C2_ReturnPassesUpThroughBlocks ==
    /\ \A i \in 1..Len(trace) :
          (trace[i].role = "Block.Statements" /\ trace[i].type = "RETURN_VALUE")
          => /\ i < Len(trace)
             /\ trace[i + 1].node = "BlockStatement"
             /\ trace[i + 1].type = "RETURN_VALUE"
             /\ trace[i + 1].addr = trace[i].addr
    /\ \A i \in 1..Len(trace) :
          (trace[i].node = "ReturnStatement" /\ trace[i].type = "RETURN_VALUE"
           /\ trace[i].depth = 0)
          => /\ \A j \in (i + 1)..Len(trace) : trace[j].addr = trace[i].addr
             /\ pc = "returned"
             /\ result.addr = trace[i].aux
    /\ (prog # <<>> /\ prog[1] = 4) => (prog = <<4>> /\ IsInteger(result, 10))
    /\ (prog # <<>> /\ prog[1] = 5)
          => (prog = <<5>> /\ pc = "returned" /\ IsInteger(result, 5))

\* C3: Eval always returns an object: no evaluation yields nil, neither the
\* program's nor any sub-node's, and none aborts the host.
C3_EvalAlwaysReturnsAValue ==
    /\ pc # "panic"
    /\ pc = "returned" => ~IsNil(result)
    /\ \A i \in 1..Len(trace) : trace[i].type # "nil"

\* C4: a function literal captures the environment it is evaluated in; an
\* application evaluates the body in an environment of its own whose parent
\* is that captured environment; so a free name resolves in the defining
\* scope (`let x = 1; let h = fn() { x }; fn(x) { h() }(2)` yields 1, not the
\* caller's 2) and `adder(2)(3)` yields 5.
C4_LexicalScoping ==
    /\ \A i \in 1..Len(trace) :
          trace[i].node = "FunctionLiteralExpression"
          => (trace[i].type = "FUNCTION" /\ trace[i].aux = trace[i].env)
    /\ \A i \in 1..Len(trace) :
          trace[i].role = "extendFunctionEnv"
          => /\ heap[trace[i].env].outer = trace[i].aux
             /\ trace[i].env # GlobalEnv
             /\ \A j \in 1..Len(trace) :
                   (trace[j].role = "extendFunctionEnv" /\ j # i)
                   => trace[j].env # trace[i].env
    /\ prog = <<7, 8>> => IsInteger(result, 5)
    /\ prog = <<15, 16, 17>> => IsInteger(result, 1)

\* h was applied from inside the body of fn(x), whose environment binds x
\* to 2, and its own environment hangs off the global one
C4_Witness ==
    /\ prog = <<15, 16, 17>>
    /\ IsInteger(result, 1)
    /\ \E i \in 1..Len(trace), j \in 1..Len(trace) :
          /\ i < j
          /\ trace[i].role = "extendFunctionEnv"
          /\ trace[j].role = "extendFunctionEnv"
          /\ "x" \in DOMAIN heap[trace[i].env].store
          /\ heap[trace[j].env].outer = GlobalEnv
          /\ trace[j].env # trace[i].env

\* the child positions C5 names
C5Roles ==
    {"Prefix.Right", "Infix.Right", "Infix.Left", "If.Condition", "Let.Value",
     "Return.ReturnValue", "Call.Function", "Block.Statements"}

\* C5: when a prefix or infix operand, an if-condition, a let or return
\* value, a callee or a block statement yields an Error, the very next thing
\* that happens is the enclosing node returning that same Error object (no
\* sibling is evaluated, nothing is bound); a program statement's Error ends
\* the program with that Error; env.Set never binds an Error.
C5_ErrorsPropagate ==
    /\ \A i \in 1..Len(trace) :
          (trace[i].type = "ERROR" /\ trace[i].role \in C5Roles)
          => /\ i < Len(trace)
             /\ trace[i + 1].role # "env.Set"
             /\ trace[i + 1].type = "ERROR"
             /\ trace[i + 1].addr = trace[i].addr
    /\ (pc # "panic" /\ trace # <<>> /\ LastEvent.type = "ERROR")
          => (pc = "returned" /\ result.type = "ERROR"
              /\ result.addr = LastEvent.addr)
    /\ \A i \in 1..Len(trace) :
          trace[i].role = "env.Set" => trace[i].type # "ERROR"
    /\ (prog # <<>> /\ prog[1] = 9)
          => (prog = <<9>>
              /\ IsErrorMessage(result, "type mismatch: INTEGER + BOOLEAN"))
    /\ prog = <<18>> => ~Bound("y")
    /\ prog = <<19>> => (Bound("a") /\ ~Bound("b"))
    /\ prog = <<20>> => ~Bound("c")

\* the Error of `-true`, the second statement of a block, ended the block,
\* the if and the program; the first statement had bound a, the third never
\* bound b
C5_Witness ==
    /\ prog = <<19>>
    /\ pc = "returned"
    /\ IsErrorMessage(result, "unkown operator: -BOOLEAN")
    /\ Bound("a") /\ ~Bound("b")
    /\ \E i \in 1..Len(trace) :
          trace[i].role = "Block.Statements" /\ trace[i].type = "ERROR"

\* the events of one operation
OpEvents(role) == {i \in 1..Len(trace) : trace[i].role = role}

\* the canonical FALSE or NULL
Falsy(obj) == obj.addr \in {FALSE_.addr, NULL.addr}

\* C11: a value is falsy exactly when it is the canonical FALSE or NULL:
\* `!x` returns TRUE iff x is FALSE or NULL and FALSE otherwise (FALSE for 0,
\* "" and []); an if-expression evaluates its consequence iff its condition
\* is not falsy, and with a falsy condition its alternative, or yields NULL
\* when it has none.
C11_Truthiness ==
    /\ \A i \in OpEvents("evalPrefixExpression") :
          trace[i].node = "!"
          => trace[i].val = (IF Falsy(trace[i].args[1]) THEN TRUE_ ELSE FALSE_)
    /\ \A i \in OpEvents("evalIfExpression") :
          trace[i].node = (IF ~Falsy(trace[i].args[1]) THEN "Consequence"
                           ELSE IF trace[i].alternative THEN "Alternative"
                           ELSE "NULL")
    /\ prog = <<38>> => result = FALSE_
    /\ prog = <<39>> => result = FALSE_
    /\ prog = <<40>> => result = FALSE_
    /\ prog = <<44>> => IsInteger(result, 1)
    /\ prog = <<45>> => IsInteger(result, 1)
    /\ prog = <<46>> => IsInteger(result, 1)
    /\ prog = <<47>> => result = NULL
    /\ prog = <<49>> => IsInteger(result, 2)

\* `if ([]) { 1 } else { 2 }` took the consequence on an empty array, after
\* `let t = !5; if (t) { 1 } else { !t }` took the alternative on FALSE
C11_Witness ==
    /\ prog = <<50, 51, 46>>
    /\ IsInteger(result, 1)
    /\ \E i \in OpEvents("evalIfExpression") :
          /\ trace[i].node = "Consequence"
          /\ trace[i].args[1].type = "ARRAY"
          /\ trace[i].args[1].Elements.len = 0

\* C12: every infix operator, `==` and `!=` included, applied to two operands
\* of different types returns the Error `type mismatch: LT OP RT`.
C12_MismatchedOperandsAreAnError ==
    \A i \in OpEvents("evalInfixExpression") :
        LET left == trace[i].args[1]
            right == trace[i].args[2]
        IN  left.type # right.type
            => IsErrorMessage(trace[i].val,
                              "type mismatch: " \o left.type \o " "
                              \o trace[i].node \o " " \o right.type)

\* the statement evaluated last rebound no name (parameters are bound before
\* the body is evaluated), so a name resolves in `heap` as it did when it
\* was evaluated
NothingRebound == OpEvents("env.Set") = {}

\* C19: a name is looked up first in the environment chain, innermost scope
\* outward, then among the builtins, and only if both miss is the result the
\* Error `identifier not found: NAME`; so `let len = 1; len` yields 1, and
\* `len` with no binding yields the Builtin.
C19_IdentifierResolutionOrder ==
    /\ NothingRebound
          => \A i \in OpEvents("evalIdentifier") :
                LET got == EnvGet(heap, trace[i].env, trace[i].node)
                    val == trace[i].val
                IN  IF got.ok THEN val = got.val
                    ELSE IF trace[i].node
                              \in {"len", "first", "last", "rest", "push"}
                    THEN val.type = "BUILTIN" /\ val.Fn = trace[i].node
                    ELSE IsErrorMessage(val, "identifier not found: "
                                             \o trace[i].node)
    /\ prog = <<52, 53>> => IsInteger(result, 1)
    /\ prog = <<53>> => (result.type = "BUILTIN" /\ result.Fn = "len")
    /\ prog = <<54>> => IsInteger(result, 3)

\* in `fn(x) { if (x) { rest } else { foobar } }(len)` after `let len = 1;`
\* the argument `len` resolved to the binding, x to the parameter and `rest`
\* to the Builtin
C19_Witness ==
    /\ prog = <<52, 55>>
    /\ result.type = "BUILTIN" /\ result.Fn = "rest"
    /\ \E i \in OpEvents("evalIdentifier"), j \in OpEvents("evalIdentifier") :
          /\ trace[i].node = "len" /\ IsInteger(trace[i].val, 1)
          /\ trace[j].node = "x" /\ trace[j].env # GlobalEnv

\* the number of arguments a builtin takes
Arity(name) == IF name = "push" THEN 2 ELSE 1

\* the kinds of first argument a builtin supports
Supported(name) == IF name = "len" THEN {"STRING", "ARRAY"} ELSE {"ARRAY"}

\* C20: every builtin is total: whatever its arguments it returns a value
\* and never aborts.  A wrong argument count returns `wrong number of
\* arguments. expected=N got=M`, an unsupported kind of argument returns
\* `argument to FN not supported, got T` (FN in backquotes), first and last
\* of an empty array return NULL, and rest of an array of fewer than 2
\* elements returns NULL.
C20_BuiltinsAreTotal ==
    \A i \in OpEvents("Builtin.call") :
        /\ i < Len(trace)
        /\ trace[i + 1].role = "Builtin.Fn"
        /\ LET name == trace[i].node
               args == trace[i].args
               val == trace[i + 1].val
           IN  /\ ~IsNil(val)
               /\ Len(args) # Arity(name)
                     => IsErrorMessage(val,
                            "wrong number of arguments. expected="
                            \o ToString(Arity(name)) \o " got="
                            \o ToString(Len(args)))
               /\ (Len(args) = Arity(name)
                   /\ args[1].type \notin Supported(name))
                     => IsErrorMessage(val,
                            "argument to " \o Backquote \o name \o Backquote
                            \o " not supported, got " \o args[1].type)
               /\ (Len(args) = 1 /\ args[1].type = "ARRAY")
                     => /\ (name \in {"first", "last"}
                            /\ args[1].Elements.len = 0) => val = NULL
                        /\ (name = "rest" /\ args[1].Elements.len < 2)
                              => val = NULL

\* the elements of an array, read from the backing arrays m
Contents(m, array) ==
    [k \in 1..array.Elements.len |-> ElementAt(m, array.Elements, k - 1)]

\* the arrays bound to a name in some environment
BoundArrays ==
    {heap[e].store[n] : <<e, n>> \in
        {en \in (1..Len(heap)) \X {"a", "b", "c", "d"} :
            /\ en[2] \in DOMAIN heap[en[1]].store
            /\ heap[en[1]].store[en[2]].type = "ARRAY"}}

\* C15: arrays are immutable: no push or rest changes the length or an
\* element of an array that existed before the call, whether the array is
\* the argument, the result of an earlier push, or derived from them; after
\* `let a = [1,2,3]; let b = push(a, 4); let c = push(a, 5);` `b[3]` is 4.
C15_ArraysAreImmutable ==
    /\ \A i \in OpEvents("Builtin.Fn") :
          trace[i].node \in {"push", "rest"}
          => \A array \in BoundArrays :
                array.addr < trace[i].val.addr
                => Contents(trace[i].mem, array) = Contents(trace[i - 1].mem, array)
    /\ prog = <<68, 69, 70>> => IsInteger(result, 4)

\* the indexings of an array
ArrayIndexings == {i \in OpEvents("Indexing.call") : trace[i].node = "ARRAY"}

\* C16: indexing an Array with an Integer i yields an Error reporting the
\* negative index if i < 0, an Error reporting index=i and max=length-1 if
\* i >= length, and otherwise the element at position i; an index that is
\* not an Integer yields an Error naming the index's type.  (The messages
\* are compared up to the case of their first letter.)
C16_ArrayIndexing ==
    \A i \in ArrayIndexings :
        /\ i < Len(trace)
        /\ trace[i + 1].role = "Indexing"
        /\ LET array == trace[i].args[1]
               index == trace[i].args[2]
               val == trace[i + 1].val
           IN  IF index.type # "INTEGER"
               THEN /\ val.type = "ERROR"
                    /\ val.Message \in
                          {c \o "annot use as index " \o index.type :
                             c \in {"C", "c"}}
               ELSE IF index.Value < 0
               THEN /\ val.type = "ERROR"
                    /\ val.Message \in
                          {c \o "annot index with a negative number "
                             \o ToString(index.Value) : c \in {"C", "c"}}
               ELSE IF index.Value >= array.Elements.len
               THEN /\ val.type = "ERROR"
                    /\ val.Message \in
                          {c \o "ndex is larger than the max. index="
                             \o ToString(index.Value) \o ", max="
                             \o ToString(array.Elements.len - 1) :
                             c \in {"I", "i"}}
               ELSE val = Contents(trace[i].mem, array)[index.Value + 1]

\* the indexings of a hash
HashIndexings == {i \in OpEvents("Indexing.call") : trace[i].node = "HASH"}

\* C17: indexing a Hash with a hashable key the hash does not hold returns
\* the NULL singleton.
C17_AbsentKeyYieldsNull ==
    \A i \in HashIndexings :
        LET hash == trace[i].args[1]
            index == trace[i].args[2]
        IN  (Hashable(index) /\ HashKey(index) \notin DOMAIN hash.Pairs)
            => /\ i < Len(trace)
               /\ trace[i + 1].role = "Indexing"
               /\ trace[i + 1].val = NULL

\* the kinds of values that are not hashable: Function, Array, Hash, Null,
\* and the others (Builtin, Error, ReturnValue)
Unhashable ==
    {"FUNCTION", "ARRAY", "HASH", "NULL", "BUILTIN", "ERROR", "RETURN_VALUE"}

\* Only Integer, Boolean and String values are hashable: a hash literal with
\* a key of another kind yields the Error `word use as key T` and no Hash,
\* indexing a Hash with such a value yields `word use as index T`, and a
\* key of the three hashable kinds is accepted.
OnlyThreeKindsHashable(word) ==
    /\ \A i \in OpEvents("HashLiteral.pair") :
          LET key == trace[i].args[1]
          IN  /\ key.type \in {"INTEGER", "BOOLEAN", "STRING"}
                    => trace[i].val = key
              /\ key.type \in Unhashable
                    => /\ IsErrorMessage(trace[i].val,
                                         word \o " use as key " \o key.type)
                       /\ i < Len(trace)
                       /\ trace[i + 1].node = "HashLiteral"
                       /\ trace[i + 1].addr = trace[i].val.addr
    /\ \A i \in HashIndexings :
          LET hash == trace[i].args[1]
              index == trace[i].args[2]
          IN  /\ index.type \in {"INTEGER", "BOOLEAN", "STRING"}
                    => /\ i < Len(trace)
                       /\ trace[i + 1].role = "Indexing"
                       /\ ~isError(trace[i + 1].val)
                       /\ HashKey(index) \in DOMAIN hash.Pairs
                             => trace[i + 1].val = hash.Pairs[HashKey(index)].Value
              /\ index.type \in Unhashable
                    => /\ i < Len(trace)
                       /\ trace[i + 1].role = "Indexing"
                       /\ IsErrorMessage(trace[i + 1].val,
                                         word \o " use as index " \o index.type)
    /\ prog = <<80>>
          => /\ result.type = "HASH"
             /\ DOMAIN result.Pairs = {"STRING:a", "INTEGER:2"}

ValueComparisons ==
    {i \in OpEvents("evalInfixExpression") :
        /\ trace[i].node \in {"==", "!="}
        /\ trace[i].args[1].type = trace[i].args[2].type
        /\ trace[i].args[1].type \in {"INTEGER", "STRING"}}

\* what `==` / `!=` on equal or differing values is to yield
ByValue(operator, left, right) ==
    nativeBoolToBooleanObject((operator = "==") = (left.Value = right.Value))

\* C13 as stated: `==` and `!=` compare two Integers, and two Strings, by
\* value, whether or not the operands are the same object.
C13_IntegerAndStringEqualityByValue ==
    \A i \in ValueComparisons :
        trace[i].val = ByValue(trace[i].node, trace[i].args[1], trace[i].args[2])

\* C13: `==` and `!=` compare two Integers by value, whether or not the
\* operands are the same object; on two Strings they yield an Error (the
\* unknown-operator Error of STRING OP STRING) whatever the values.
C13_IntegerEqualityByValueStringsUnsupported ==
    \A i \in ValueComparisons :
        LET left == trace[i].args[1]
            right == trace[i].args[2]
        IN  IF left.type = "INTEGER"
            THEN trace[i].val = ByValue(trace[i].node, left, right)
            ELSE IsErrorMessage(trace[i].val,
                                "unkown operator: STRING " \o trace[i].node
                                \o " STRING")

\* after `n == n` compared one Integer object with itself, `1 == 1` compared
\* two objects of one value
C13_Witness ==
    /\ prog = <<32, 33, 30>>
    /\ result = TRUE_
    /\ \E i \in ValueComparisons :
          /\ trace[i].args[1].type = "INTEGER"
          /\ trace[i].args[1].addr # trace[i].args[2].addr

\* the applications of a function to fewer arguments than it has parameters
ShortCalls ==
    {i \in OpEvents("extendFunctionEnv") :
        Len(trace[i].args) < Len(trace[i].val.Parameters)}

\* C14: a call of a user function with fewer arguments than parameters does
\* not fail at the call: the body runs with the missing parameters unbound,
\* and a reference to one of them yields `identifier not found: NAME`.
C14_ArityIsUnchecked ==
    /\ \A i \in ShortCalls :
          /\ pc # "panic"
          /\ \E j \in OpEvents("applyFunction") : trace[j].env = trace[i].env
    /\ prog = <<36>> => IsInteger(result, 1)
    /\ prog = <<37>> => IsErrorMessage(result, "identifier not found: y")


\* the two canonical Booleans
IsSingleton(obj) == obj = TRUE_ \/ obj = FALSE_

\* C21: every Boolean the evaluator produces, from a literal, a comparison,
\* `==`, `!=` or `!`, is one of the singletons TRUE and FALSE, so `==` on two
\* Booleans, which compares identity, is TRUE iff they have the same truth
\* value, and `!=` iff they have not.
C21_BooleansAreSingletons ==
    /\ \A i \in 1..Len(trace) :
          trace[i].type = "BOOLEAN"
          => trace[i].addr \in {TRUE_.addr, FALSE_.addr}
    /\ \A i \in OpEvents("evalInfixExpression") \cup OpEvents("evalPrefixExpression") :
          /\ trace[i].val.type = "BOOLEAN" => IsSingleton(trace[i].val)
          /\ \A k \in 1..Len(trace[i].args) :
                trace[i].args[k].type = "BOOLEAN" => IsSingleton(trace[i].args[k])
    /\ \A i \in OpEvents("evalInfixExpression") :
          LET left == trace[i].args[1]
              right == trace[i].args[2]
          IN  (left.type = "BOOLEAN" /\ right.type = "BOOLEAN"
               /\ trace[i].node \in {"==", "!="})
              => trace[i].val = ByValue(trace[i].node, left, right)
    /\ result.type = "BOOLEAN" => IsSingleton(result)
    /\ \A n \in DOMAIN heap[GlobalEnv].store :
          heap[GlobalEnv].store[n].type = "BOOLEAN"
          => IsSingleton(heap[GlobalEnv].store[n])
    /\ prog = <<96>> => result = TRUE_
    /\ prog = <<97>> => result = TRUE_
    /\ prog = <<98>> => result = TRUE_
    /\ prog = <<99>> => result = FALSE_

\* after `let t = 1 > 2;`, `(t != false) == (1 != 1)` compared the FALSE of
\* a `!=` on Booleans with the FALSE of a `!=` on Integers and found them
\* the same object
C21_Witness ==
    /\ prog = <<102, 104>>
    /\ result = TRUE_
    /\ \E i \in OpEvents("evalInfixExpression") :
          /\ trace[i].node = "=="
          /\ trace[i].args[1] = FALSE_
          /\ trace[i].args[2] = FALSE_


\* the message begins with the shape
HasPrefix(msg, shape) ==
    Len(msg) >= Len(shape) /\ SubSeq(msg, 1, Len(shape)) = shape

MessageShapes ==
    {"unknown operator: ", "type mismatch: ", "identifier not found: ",
     "cannot use as key ", "cannot use as index ", "cannot index type ",
     "cannot index with a negative number ",
     "index is larger than the max. index=",
     "wrong number of arguments. expected=", "argument to ",
     "not a function: "}

WellShaped(obj) ==
    isError(obj) => \E shape \in MessageShapes : HasPrefix(obj.Message, shape)

\* C22: the message of every Error the evaluator makes begins with one of
\* the shapes `unknown operator: `, `type mismatch: `, `identifier not
\* found: `, `cannot use as key `, `cannot use as index `, `cannot index
\* type `, `cannot index with a negative number `, `index is larger than the
\* max. index=`, `wrong number of arguments. expected=`, `argument to `,
\* `not a function: `: the Error a statement yields and the Error an
\* operator, an identifier, a builtin, an index or a hash pair returns.
C22_ErrorMessagesHaveTheShapes ==
    /\ WellShaped(result)
    /\ \A i \in 1..Len(trace) :
          "val" \in DOMAIN trace[i] => WellShaped(trace[i].val)


Wrapped(obj) == obj.type = "RETURN_VALUE"

\* C23: a ReturnValue is a control signal only: no binding of an environment
\* (made by a let or by binding an argument to a parameter), no element of
\* an array and no value of a hash is a ReturnValue, and no statement of the
\* program yields one as the program's result, `let x = if (true) { return
\* 5 };` and `return if (true) { return 1 };` included.
C23_ReturnValueIsOnlyASignal ==
    /\ ~Wrapped(result)
    /\ \A e \in 1..Len(heap) : \A n \in DOMAIN heap[e].store :
          ~Wrapped(heap[e].store[n])
    /\ \A i \in OpEvents("extendFunctionEnv") :
          \A k \in 1..Len(trace[i].args) : ~Wrapped(trace[i].args[k])
    /\ \A b \in 1..Len(mem) : \A k \in 1..Len(mem[b]) : ~Wrapped(mem[b][k])
    /\ \A i \in OpEvents("HashLiteral.pair") : ~Wrapped(trace[i].args[2])


\* C24: a hash literal propagates errors: no pair whose key or value
\* evaluated to an Error is put into a Hash, no Hash holds an Error as a
\* value, and `{1: foobar}` yields the Error `identifier not found: foobar`.
C24_HashLiteralPropagatesErrors ==
    /\ \A i \in OpEvents("HashLiteral.pair") :
          ~isError(trace[i].args[1]) /\ ~isError(trace[i].args[2])
    /\ result.type = "HASH" =>
          \A k \in DOMAIN result.Pairs : ~isError(result.Pairs[k].Value)
    /\ prog = <<110>> =>
          IsErrorMessage(result, "identifier not found: foobar")


\* C25: the evaluation of a hash literal is deterministic and in source
\* order: the pairs are evaluated in the order they are written (in
\* `{"a": 1, 2: true}` the pair of "a" before the pair of 2), of two pairs
\* with the same hash key the value of the one written last is stored
\* (`{1: "a", 1: "b"}[1]` is always "b"), and two evaluations of the same
\* literal in equal environments give equal results (after `let p = {1: 1,
\* 1: 2}[1]; let q = {1: 1, 1: 2}[1];`, `p == q` is TRUE).
C25_HashLiteralIsDeterministic ==
    /\ prog = <<80>> =>
          \A i, j \in OpEvents("HashLiteral.pair") :
             i < j => /\ trace[i].args[1].type = "STRING"
                      /\ trace[j].args[1].type = "INTEGER"
    /\ prog = <<112>> => result.type = "STRING" /\ result.Value = "b"
    /\ prog = <<113, 114, 115>> => result = TRUE_


\* C26: an Error in the target or in the index of an index expression is
\* returned unchanged: whenever the index of an Array or a Hash evaluated
\* to an Error the index expression yields that very Error, and `foobar[0]`
\* and `[1, 2][foobar]` yield `identifier not found: foobar`.
C26_IndexingPropagatesErrors ==
    /\ \A i \in OpEvents("Indexing") :
          isError(trace[i].args[2]) => trace[i].val = trace[i].args[2]
    /\ prog = <<116>> => IsErrorMessage(result, "identifier not found: foobar")
    /\ prog = <<117>> => IsErrorMessage(result, "identifier not found: foobar")


\* the identifier was looked up
Evaluated(name) ==
    \E i \in OpEvents("evalIdentifier") : trace[i].node = name

\* C27: the order of evaluation inside an expression.  Infix: the right
\* operand is evaluated before the left; when the right operand yields an
\* Error the infix expression returns that Error next and the left operand
\* is never evaluated (`foo + bar` yields the Error about bar and foo is not
\* looked up; in `3 - 4` the 4 is made before the 3).  Call: the callee is
\* evaluated before any argument (an Error callee is returned next, in
\* `nofn(x1)` x1 is not looked up); arguments and array elements are
\* evaluated left to right, and at the first one that yields an Error the
\* call or array literal returns that Error next: no later argument or
\* element is evaluated and the function is not applied.
C27_EvaluationOrder ==
    /\ \A i \in 1..Len(trace) :
          /\ (trace[i].role = "Infix.Right" /\ trace[i].type = "ERROR")
                => /\ i < Len(trace)
                   /\ trace[i + 1].node = "InfixExpression"
                   /\ trace[i + 1].addr = trace[i].addr
          /\ (trace[i].role = "Call.Function" /\ trace[i].type = "ERROR")
                => /\ i < Len(trace)
                   /\ trace[i + 1].node = "FunctionCallExpression"
                   /\ trace[i + 1].addr = trace[i].addr
          /\ (trace[i].role = "evalExpressions" /\ trace[i].type = "ERROR")
                => /\ i < Len(trace)
                   /\ trace[i + 1].node \in
                         {"FunctionCallExpression", "ArrayLiteral"}
                   /\ trace[i + 1].addr = trace[i].addr
    /\ \A i \in OpEvents("evalInfixExpression") :
          i > 1 /\ trace[i - 1].role = "Infix.Left"
    /\ prog = <<118>> =>
          /\ IsErrorMessage(result, "identifier not found: bar")
          /\ ~Evaluated("foo")
    /\ prog = <<119>> =>
          /\ IsErrorMessage(result, "identifier not found: nofn")
          /\ ~Evaluated("x1")
    /\ (prog = <<120>> \/ prog = <<121>> \/ prog = <<124>> \/ prog = <<125>>) =>
          /\ IsErrorMessage(result, "identifier not found: u1")
          /\ ~Evaluated("v1")
          /\ OpEvents("Builtin.call") = {}
    /\ prog = <<122>> =>
          /\ result.type = "INTEGER" /\ result.Value = 2
          /\ \A i \in OpEvents("extendFunctionEnv") :
                /\ trace[i].val.addr < trace[i].args[1].addr
                /\ trace[i].args[1].addr < trace[i].args[2].addr
    /\ prog = <<123>> =>
          \A i \in OpEvents("evalInfixExpression") :
             trace[i].args[2].addr < trace[i].args[1].addr

\* in `len(1, u1, v1)` the 1 and u1 were evaluated, u1's Error is the
\* result, v1 was not looked up and len was not called
C27_Witness ==
    /\ prog = <<124>>
    /\ IsErrorMessage(result, "identifier not found: u1")
    /\ Evaluated("u1") /\ ~Evaluated("v1")
    /\ \E i \in 1..Len(trace) :
          trace[i].role = "evalExpressions" /\ trace[i].node = "IntegerLiteral"
    /\ OpEvents("Builtin.call") = {}


\* C29: a let writes the innermost scope and a closure captures its
\* environment by reference.  The name a let binds is bound in the
\* environment the let is evaluated in, and inside a function call that is
\* the environment made for the call, never the global one; after `let x =
\* 5;` a call of `fn() { let x = 2; x }` or of `fn() { if (true) { let x =
\* 3; }; x }` yields its own x and leaves the global x at 5; `fn(x) { fn() {
\* let x = 9; x }(); x }(7)` yields 7; a binding added to the captured
\* environment after the function was made is seen by later calls (`let f =
\* fn() { x }; let x = 5; f()` yields 5), and a function bound by let calls
\* itself by name.
C29_LetWritesInnermostScope ==
    /\ \A i \in 1..Len(trace) :
          trace[i].role = "env.Set" =>
             /\ trace[i].node \in DOMAIN heap[trace[i].env].store
             /\ trace[i].depth > 0 =>
                   /\ trace[i].env # GlobalEnv
                   /\ \E j \in OpEvents("extendFunctionEnv") :
                         j < i /\ trace[j].env = trace[i].env
             /\ trace[i].depth = 0 => trace[i].env = GlobalEnv
    /\ prog = <<127>> => IsInteger(result, 2) /\ ~Bound("x")
    /\ (prog = <<126, 127>> \/ prog = <<126, 129>>) =>
          /\ IsInteger(result, IF prog[2] = 127 THEN 2 ELSE 3)
          /\ IsInteger(heap[GlobalEnv].store["x"], 5)
    /\ (prog = <<126, 127, 128>> \/ prog = <<126, 129, 128>>) =>
          IsInteger(result, 5)
    /\ prog = <<134>> => IsInteger(result, 7)
    /\ prog = <<130, 126, 131>> => IsInteger(result, 5)
    /\ prog = <<132, 133>> => IsInteger(result, 0)

\* the let inside the if-block of the function's body bound x to 3 in the
\* call's environment, and the global x is still 5
C29_Witness ==
    /\ prog = <<126, 129>>
    /\ IsInteger(result, 3)
    /\ IsInteger(heap[GlobalEnv].store["x"], 5)
    /\ \E i \in 1..Len(trace) :
          /\ trace[i].role = "env.Set"
          /\ trace[i].node = "x"
          /\ trace[i].env # GlobalEnv
          /\ IsInteger(heap[trace[i].env].store["x"], 3)


(***************************************************************************)
(* The parser (package parser).                                            *)
(*                                                                         *)
(* Bounds of the parser model.                                             *)
(***************************************************************************)
\* the longest operator chain (number of operands) the parser is run on
MaxChain == 4
\* p.errors and the parse functions' local lists grow without bound in the
\* code; the model records their first MaxErrors / MaxElements entries only
\* (no parse function reads the length of either)
MaxErrors == 4
MaxElements == 4
\* the largest integer literal the model's strconv.ParseInt converts
MaxIntLiteral == 9

(***************************************************************************)
(* Tokens (package token) and the lexer's NextToken: the input is the      *)
(* sequence of tokens before end of input, after which the lexer yields    *)
(* EOF for ever.                                                           *)
(***************************************************************************)
Token(type, literal) == [Type |-> type, Literal |-> literal]
EOFToken == Token("EOF", "")
ZeroToken == Token("", "")
Ident(x) == Token("IDENT", x)
IntTok(lit) == Token("INT", lit)
Op(lit) ==
    Token(CASE lit = "=" -> "ASSIGN" [] lit = "+" -> "PLUS" [] lit = "-" -> "MINUS"
            [] lit = "!" -> "BANG" [] lit = "*" -> "ASTERISK" [] lit = "/" -> "SLASH"
            [] lit = "<" -> "LT" [] lit = ">" -> "GT" [] lit = "==" -> "EQ"
            [] lit = "!=" -> "NOT_EQ" [] lit = "," -> "COMMA"
            [] lit = ";" -> "SEMICOLON" [] lit = "(" -> "LPAREN"
            [] lit = ")" -> "RPAREN" [] lit = "{" -> "LBRACE" [] lit = "}" -> "RBRACE"
            [] lit = "[" -> "LBRACKET" [] lit = "]" -> "RBRACKET"
            [] lit = "fn" -> "FUNCTION" [] lit = "let" -> "LET"
            [] lit = "true" -> "TRUE" [] lit = "false" -> "FALSE"
            [] lit = "if" -> "IF" [] lit = "else" -> "ELSE"
            [] lit = "return" -> "RETURN",
          lit)

\* l.NextToken(): the token after the l tokens already read
NextToken(l) == IF l < Len(input) THEN input[l + 1] ELSE EOFToken

(***************************************************************************)
(* Precedence levels and the precedence table.                             *)
(***************************************************************************)
LOWEST == 1
EQUALS == 2
LESSGREATER == 3
SUM == 4
PRODUCT == 5
PREFIX == 6
INDEX == 7
CALL == 8

\* the table with calls no tighter than a sum
precedences_CallAsSum(t) ==
    CASE t \in {"EQ", "NOT_EQ"} -> [ok |-> TRUE, p |-> EQUALS]
      [] t \in {"LT", "GT"} -> [ok |-> TRUE, p |-> LESSGREATER]
      [] t \in {"PLUS", "MINUS"} -> [ok |-> TRUE, p |-> SUM]
      [] t \in {"SLASH", "ASTERISK"} -> [ok |-> TRUE, p |-> PRODUCT]
      [] t = "LPAREN" -> [ok |-> TRUE, p |-> SUM]
      [] t = "LBRACKET" -> [ok |-> TRUE, p |-> INDEX]
      [] OTHER -> [ok |-> FALSE, p |-> 0]

\* precedences[t], with Go's "comma ok"
precedences(t) ==
    CASE t \in {"EQ", "NOT_EQ"} -> [ok |-> TRUE, p |-> EQUALS]
      [] t \in {"LT", "GT"} -> [ok |-> TRUE, p |-> LESSGREATER]
      [] t \in {"PLUS", "MINUS"} -> [ok |-> TRUE, p |-> SUM]
      [] t \in {"SLASH", "ASTERISK"} -> [ok |-> TRUE, p |-> PRODUCT]
      [] t = "LPAREN" -> [ok |-> TRUE, p |-> CALL]
      [] t = "LBRACKET" -> [ok |-> TRUE, p |-> INDEX]
      [] OTHER -> [ok |-> FALSE, p |-> 0]

\* the functions New registers: prefixParseFns[t] and infixParseFns[t],
\* "" for a missing entry (nil)
prefixParseFns(t) ==
    CASE t = "IDENT" -> "parseIdentifier"
      [] t = "INT" -> "parseIntegerLiteral"
      [] t \in {"BANG", "MINUS"} -> "parsePrefixExpression"
      [] t \in {"TRUE", "FALSE"} -> "parseBooleanExpression"
      [] t = "LPAREN" -> "parseGroupedExpression"
      [] t = "IF" -> "parseIfExpression"
      [] t = "FUNCTION" -> "parseFunctionExpression"
      [] t = "STRING" -> "parseStringLiteral"
      [] t = "LBRACKET" -> "parseArrayLiteral"
      [] OTHER -> ""

infixParseFns(t) ==
    CASE t \in {"SLASH", "ASTERISK", "PLUS", "MINUS", "GT", "LT", "EQ", "NOT_EQ"}
           -> "parseInfixExpression"
      [] t = "LPAREN" -> "parseFunctionCall"
      [] t = "LBRACKET" -> "parseIndexingExpression"
      [] OTHER -> ""

(***************************************************************************)
(* The Parser struct and its methods that call no parse function. Each     *)
(* takes the struct q and gives the struct it leaves.                      *)
(***************************************************************************)
nextToken(q) ==
    [q EXCEPT !.curToken = q.peekToken,
              !.peekToken = NextToken(q.l),
              !.l = IF q.l < Len(input) THEN q.l + 1 ELSE q.l]

\* New(l): the parser after the two initial calls of nextToken
New ==
    nextToken(nextToken([l |-> 0, curToken |-> ZeroToken, peekToken |-> ZeroToken,
                         errors |-> <<>>]))

currTokenIs(q, t) == q.curToken.Type = t
peekTokenIs(q, t) == q.peekToken.Type = t

\* append(p.errors, msg)
appendError(q, msg) ==
    [q EXCEPT !.errors = IF Len(@) < MaxErrors THEN Append(@, msg) ELSE @]

peekError(q, t) ==
    appendError(q, "unexpected next token expected=" \o t \o " got=" \o q.peekToken.Type)

noPrefixParseError(q, t) ==
    appendError(q, "No prefix parse function found for " \o t)

\* expectPeek gives its boolean and the parser it leaves
expectPeek(q, t) ==
    IF peekTokenIs(q, t) THEN [ok |-> TRUE, p |-> nextToken(q)]
    ELSE [ok |-> FALSE, p |-> peekError(q, t)]

\* curPrecedence answering LOWEST for every token
curPrecedence_Lowest(q) == LOWEST

curPrecedence(q) ==
    IF precedences(q.curToken.Type).ok THEN precedences(q.curToken.Type).p ELSE LOWEST

peekPrecedence(q) ==
    IF precedences(q.peekToken.Type).ok THEN precedences(q.peekToken.Type).p ELSE LOWEST

\* strconv.ParseInt(literal, 0, 64) on the lexer's digit strings: the decimal
\* numerals up to MaxIntLiteral convert, any other literal is an error
ParseInt(literal) ==
    IF \E n \in 0..MaxIntLiteral : ToString(n) = literal
    THEN [err |-> FALSE, value |-> CHOOSE n \in 0..MaxIntLiteral : ToString(n) = literal]
    ELSE [err |-> TRUE, value |-> 0]

\* the prefix parse functions that call no parse function: they give the
\* expression and the parser they leave
parseIdentifier(q) == [exp |-> Identifier(q.curToken.Literal), p |-> q]

parseIntegerLiteral(q) ==
    LET r == ParseInt(q.curToken.Literal)
    IN  IF r.err
        THEN [exp |-> NoNode,
              p |-> appendError(q, "Could not parse " \o q.curToken.Literal
                                     \o " as integer")]
        ELSE [exp |-> IntegerLiteral(r.value), p |-> q]

parseBooleanExpression(q) ==
    [exp |-> BooleanExpression(currTokenIs(q, "TRUE")), p |-> q]

parseStringLiteral(q) == [exp |-> StringLiteral(q.curToken.Literal), p |-> q]

(***************************************************************************)
(* The parse functions.  A frame of the call stack holds the function      *)
(* (fn), where it resumes (pc), the node it is building or the left        *)
(* operand it was given (node), its local list (list) and its precedence   *)
(* argument (prec).  An action runs the function on top of the stack up to *)
(* its next call of a parse function or its return.                        *)
(***************************************************************************)
Frame(fn, node, prec) ==
    [fn |-> fn, pc |-> "entry", node |-> node, list |-> <<>>, prec |-> prec]
Top == stack[Len(stack)]
Running(fn) == stack # <<>> /\ Top.fn = fn

\* a slice as a returned value
List(items) == [node |-> "list", items |-> items]
\* a nil *ast.LetStatement held in an ast.Statement: not equal to nil
NilLetStatement == [node |-> "(*ast.LetStatement)(nil)"]

\* append(list, x)
appendElement(list, x) == IF Len(list) < MaxElements THEN Append(list, x) ELSE list

\* the running function returns val and leaves the parser q
Return(val, q) ==
    /\ stack' = SubSeq(stack, 1, Len(stack) - 1)
    /\ ret' = val
    /\ p' = q
    /\ UNCHANGED <<input, program>>
    /\ UNCHANGED evars

\* the running function, its frame now self, calls callee with the parser q
Invoke(self, callee, q) ==
    /\ stack' = Append([stack EXCEPT ![Len(stack)] = self], callee)
    /\ ret' = NoNode
    /\ p' = q
    /\ UNCHANGED <<input, program>>
    /\ UNCHANGED evars

\* the running function goes on, its frame now self, with the parser q
Goto(self, q) ==
    /\ stack' = [stack EXCEPT ![Len(stack)] = self]
    /\ ret' = NoNode
    /\ p' = q
    /\ UNCHANGED <<input, program>>
    /\ UNCHANGED evars

ParseProgram ==
    /\ Running("ParseProgram")
    /\ LET stmts == IF Top.pc = "stmt" /\ ret # NoNode
                    THEN appendElement(Top.list, ret) ELSE Top.list
           q == IF Top.pc = "stmt" THEN nextToken(p) ELSE p
       IN  IF q.curToken.Type # "EOF"
           THEN Invoke([Top EXCEPT !.pc = "stmt", !.list = stmts],
                     Frame("parseStatement", NoNode, LOWEST), q)
           ELSE /\ stack' = <<>>
                /\ program' = Program(stmts)
                /\ ret' = NoNode
                /\ p' = q
                /\ UNCHANGED input
                /\ UNCHANGED evars

parseStatement ==
    /\ Running("parseStatement")
    /\ IF Top.pc = "entry"
       THEN LET callee == CASE p.curToken.Type = "LET" -> "parseLetStatement"
                            [] p.curToken.Type = "RETURN" -> "parseReturnStatement"
                            [] OTHER -> "parseExpressionStatement"
            IN  Invoke([Top EXCEPT !.pc = callee], Frame(callee, NoNode, LOWEST), p)
       ELSE Return(IF Top.pc = "parseLetStatement" /\ ret = NoNode
                   THEN NilLetStatement ELSE ret, p)

parseLetStatement ==
    /\ Running("parseLetStatement")
    /\ IF Top.pc = "entry"
       THEN LET e1 == expectPeek(p, "IDENT")
                e2 == expectPeek(e1.p, "ASSIGN")
            IN  IF ~e1.ok THEN Return(NoNode, e1.p)
                ELSE IF peekTokenIs(e1.p, "SEMICOLON")
                THEN Return(NoNode, nextToken(e1.p))
                ELSE Invoke([Top EXCEPT !.pc = "value",
                                      !.node = LetStatement(e1.p.curToken.Literal, NoNode)],
                          Frame("parseExpression", NoNode, LOWEST), nextToken(e2.p))
       ELSE Return([Top.node EXCEPT !.Value = ret], expectPeek(p, "SEMICOLON").p)

RECURSIVE skipSemicolons(_)
\* the loop of parseReturnStatement
skipSemicolons(q) ==
    IF peekTokenIs(q, "SEMICOLON") THEN skipSemicolons(nextToken(q)) ELSE q

parseReturnStatement ==
    /\ Running("parseReturnStatement")
    /\ IF Top.pc = "entry"
       THEN Invoke([Top EXCEPT !.pc = "value"],
                 Frame("parseExpression", NoNode, LOWEST), nextToken(p))
       ELSE Return(ReturnStatement(ret), skipSemicolons(p))

parseExpressionStatement ==
    /\ Running("parseExpressionStatement")
    /\ IF Top.pc = "entry"
       THEN Invoke([Top EXCEPT !.pc = "expr"],
                 Frame("parseExpression", NoNode, LOWEST), p)
       ELSE Return(ExpressionStatement(ret),
                   IF peekTokenIs(p, "SEMICOLON") THEN nextToken(p) ELSE p)

\* the loop of parseExpression, leftExp being its left expression so far
expressionLoop(leftExp, q) ==
    IF /\ ~peekTokenIs(q, "SEMICOLON")
       /\ ~peekTokenIs(q, "COMMA")
       /\ Top.prec < peekPrecedence(q)
    THEN LET parseInfix == infixParseFns(q.peekToken.Type)
         IN  IF parseInfix = "" THEN Return(leftExp, q)
             ELSE Invoke([Top EXCEPT !.pc = "infix"],
                       Frame(parseInfix, leftExp, LOWEST), nextToken(q))
    ELSE Return(leftExp, q)

\* the call parsePrefix() of a function that calls no parse function
leafPrefix(parsePrefix, q) ==
    CASE parsePrefix = "parseIdentifier" -> parseIdentifier(q)
      [] parsePrefix = "parseIntegerLiteral" -> parseIntegerLiteral(q)
      [] parsePrefix = "parseBooleanExpression" -> parseBooleanExpression(q)
      [] parsePrefix = "parseStringLiteral" -> parseStringLiteral(q)

parseExpression ==
    /\ Running("parseExpression")
    /\ IF Top.pc = "entry"
       THEN LET parsePrefix == prefixParseFns(p.curToken.Type)
            IN  IF parsePrefix = ""
                THEN Return(NoNode, noPrefixParseError(p, p.curToken.Type))
                ELSE IF parsePrefix \in {"parseIdentifier", "parseIntegerLiteral",
                                         "parseBooleanExpression", "parseStringLiteral"}
                THEN expressionLoop(leafPrefix(parsePrefix, p).exp,
                                    leafPrefix(parsePrefix, p).p)
                ELSE Invoke([Top EXCEPT !.pc = "prefix"],
                          Frame(parsePrefix, NoNode, LOWEST), p)
       ELSE expressionLoop(ret, p)

parsePrefixExpression ==
    /\ Running("parsePrefixExpression")
    /\ IF Top.pc = "entry"
       THEN Invoke([Top EXCEPT !.pc = "right",
                             !.node = PrefixExpression(p.curToken.Literal, NoNode)],
                 Frame("parseExpression", NoNode, PREFIX), nextToken(p))
       ELSE Return([Top.node EXCEPT !.Right = ret], p)

parseInfixExpression ==
    /\ Running("parseInfixExpression")
    /\ IF Top.pc = "entry"
       THEN Invoke([Top EXCEPT !.pc = "right",
                             !.node = InfixExpression(Top.node, p.curToken.Literal,
                                                      NoNode)],
                 Frame("parseExpression", NoNode, curPrecedence(p)), nextToken(p))
       ELSE Return([Top.node EXCEPT !.Right = ret], p)

parseGroupedExpression ==
    /\ Running("parseGroupedExpression")
    /\ IF Top.pc = "entry"
       THEN Invoke([Top EXCEPT !.pc = "exp"],
                 Frame("parseExpression", NoNode, LOWEST), nextToken(p))
       ELSE LET e == expectPeek(p, "RPAREN")
            IN  Return(IF e.ok THEN ret ELSE NoNode, e.p)

parseIfExpression ==
    /\ Running("parseIfExpression")
    /\ CASE Top.pc = "entry" ->
              LET e == expectPeek(p, "LPAREN")
              IN  IF ~e.ok THEN Return(NoNode, e.p)
                  ELSE Invoke([Top EXCEPT !.pc = "cond",
                                        !.node = IfExpression(NoNode, NoNode, NoNode)],
                            Frame("parseExpression", NoNode, LOWEST), nextToken(e.p))
         [] Top.pc = "cond" ->
              LET e1 == expectPeek(p, "RPAREN")
                  e2 == expectPeek(e1.p, "LBRACE")
              IN  IF ~e1.ok THEN Return(NoNode, e1.p)
                  ELSE IF ~e2.ok THEN Return(NoNode, e2.p)
                  ELSE Invoke([Top EXCEPT !.pc = "cons", !.node.Condition = ret],
                            Frame("parseBlockStatement", NoNode, LOWEST), e2.p)
         [] Top.pc = "cons" ->
              LET exp == [Top.node EXCEPT !.Consequence = ret]
                  e == expectPeek(nextToken(p), "LBRACE")
              IN  IF ~peekTokenIs(p, "ELSE") THEN Return(exp, p)
                  ELSE IF ~e.ok THEN Return(NoNode, e.p)
                  ELSE Invoke([Top EXCEPT !.pc = "alt", !.node = exp],
                            Frame("parseBlockStatement", NoNode, LOWEST), e.p)
         [] Top.pc = "alt" -> Return([Top.node EXCEPT !.Alternative = ret], p)

parseFunctionExpression ==
    /\ Running("parseFunctionExpression")
    /\ CASE Top.pc = "entry" ->
              LET e == expectPeek(p, "LPAREN")
              IN  IF ~e.ok THEN Return(NoNode, e.p)
                  ELSE Invoke([Top EXCEPT !.pc = "params"],
                            Frame("parseFunctionParameters", NoNode, LOWEST),
                            nextToken(e.p))
         [] Top.pc = "params" ->
              LET e == expectPeek(p, "LBRACE")
              IN  IF ~e.ok THEN Return(NoNode, e.p)
                  ELSE Invoke([Top EXCEPT !.pc = "body", !.list = ret.items],
                            Frame("parseBlockStatement", NoNode, LOWEST), e.p)
         [] Top.pc = "body" ->
              Return(FunctionLiteralExpression(Top.list, ret), p)

\* one test of the loop condition (pc "entry") or one run of the loop body
\* (pc "body"); parseIdentifier always gives an *ast.Identifier, so the
\* type assertion never fails
parseFunctionParameters ==
    /\ Running("parseFunctionParameters")
    /\ IF Top.pc = "entry"
       THEN IF ~currTokenIs(p, "RPAREN")
            THEN Goto([Top EXCEPT !.pc = "body"], p)
            ELSE Return(List(Top.list), p)
       ELSE Goto([Top EXCEPT !.pc = "entry",
                             !.list = appendElement(@, parseIdentifier(p).exp)],
                 nextToken(IF peekTokenIs(p, "COMMA") THEN nextToken(p) ELSE p))

parseBlockStatement ==
    /\ Running("parseBlockStatement")
    /\ LET stmts == IF Top.pc = "stmt" /\ ret # NoNode
                    THEN appendElement(Top.list, ret) ELSE Top.list
           q == nextToken(p)
       IN  IF ~currTokenIs(q, "RBRACE") /\ ~currTokenIs(q, "EOF")
           THEN Invoke([Top EXCEPT !.pc = "stmt", !.list = stmts],
                     Frame("parseStatement", NoNode, LOWEST), q)
           ELSE Return(BlockStatement(stmts), q)

parseFunctionCall ==
    /\ Running("parseFunctionCall")
    /\ IF Top.pc = "entry"
       THEN Invoke([Top EXCEPT !.pc = "params"],
                 Frame("parseFunctionCallParameters", NoNode, LOWEST), nextToken(p))
       ELSE Return(FunctionCallExpression(Top.node, ret.items), p)

parseFunctionCallParameters ==
    /\ Running("parseFunctionCallParameters")
    /\ LET parameters == IF Top.pc = "param"
                         THEN appendElement(Top.list, ret) ELSE Top.list
           q == IF Top.pc = "param"
                THEN nextToken(IF peekTokenIs(p, "COMMA") THEN nextToken(p) ELSE p)
                ELSE p
       IN  IF ~currTokenIs(q, "RPAREN")
           THEN Invoke([Top EXCEPT !.pc = "param", !.list = parameters],
                     Frame("parseExpression", NoNode, LOWEST), q)
           ELSE Return(List(parameters), q)

parseArrayLiteral ==
    /\ Running("parseArrayLiteral")
    /\ LET elements == IF Top.pc = "element"
                       THEN appendElement(Top.list, ret) ELSE Top.list
           q == IF Top.pc = "element"
                THEN nextToken(IF peekTokenIs(p, "COMMA") THEN nextToken(p) ELSE p)
                ELSE nextToken(p)
       IN  IF ~currTokenIs(q, "RBRACKET")
           THEN Invoke([Top EXCEPT !.pc = "element", !.list = elements],
                     Frame("parseExpression", NoNode, LOWEST), q)
           ELSE Return(ArrayLiteral(elements), q)

parseIndexingExpression ==
    /\ Running("parseIndexingExpression")
    /\ IF Top.pc = "entry"
       THEN Invoke([Top EXCEPT !.pc = "index"],
                 Frame("parseExpression", NoNode, LOWEST), nextToken(p))
       ELSE Return(IndexingExpression(Top.node, ret), expectPeek(p, "RBRACKET").p)

(***************************************************************************)
(* String() of the AST nodes (package ast).  An IntegerLiteral prints its  *)
(* token's literal, which for the decimal numerals the model converts is   *)
(* the numeral of its value.  String() of a nil child aborts in the code;  *)
(* the model prints "<nil>" there.                                         *)
(***************************************************************************)
RECURSIVE String(_), StringAll(_, _, _)
\* the String() of items[i..], joined by sep
StringAll(items, i, sep) ==
    IF i > Len(items) THEN ""
    ELSE String(items[i]) \o (IF i < Len(items) THEN sep ELSE "")
                          \o StringAll(items, i + 1, sep)

String(n) ==
    CASE n.node = "Program" -> StringAll(n.Statements, 1, "")
      [] n.node = "LetStatement" ->
           "let " \o String(n.Name) \o " = "
                  \o (IF n.Value # NoNode THEN String(n.Value) ELSE "nil") \o ";"
      [] n.node = "ReturnStatement" ->
           "return " \o (IF n.ReturnValue # NoNode THEN String(n.ReturnValue) ELSE "nil")
                     \o ";"
      [] n.node = "ExpressionStatement" ->
           IF n.Expression # NoNode THEN String(n.Expression) ELSE "nil"
      [] n.node = "Identifier" -> n.Value
      [] n.node = "IntegerLiteral" -> ToString(n.Value)
      [] n.node = "BooleanExpression" -> IF n.Value THEN "true" ELSE "false"
      [] n.node = "StringLiteral" -> n.Value
      [] n.node = "PrefixExpression" -> "(" \o n.Operator \o String(n.Right) \o ")"
      [] n.node = "InfixExpression" ->
           "(" \o String(n.Left) \o " " \o n.Operator \o " " \o String(n.Right) \o ")"
      [] n.node = "BlockStatement" -> StringAll(n.Statements, 1, "")
      [] n.node = "IfExpression" ->
           "if " \o String(n.Condition) \o " " \o String(n.Consequence)
                 \o (IF n.Alternative # NoNode
                     THEN " else " \o String(n.Alternative) ELSE "")
      [] n.node = "FunctionLiteralExpression" ->
           "fn(" \o StringAll(n.Parameters, 1, ",") \o ")" \o String(n.Body)
      [] n.node = "FunctionCallExpression" ->
           String(n.Function) \o "(" \o StringAll(n.Parameters, 1, ",") \o ")"
      [] n.node = "ArrayLiteral" -> "[" \o StringAll(n.Elements, 1, ",") \o "]"
      [] n.node = "IndexingExpression" ->
           String(n.Target) \o "[" \o String(n.Index) \o "]"
      [] OTHER -> "<nil>"

(***************************************************************************)
(* The inputs the parser is run on.                                        *)
(***************************************************************************)
InfixOps == {"+", "-", "*", "/", "<", ">", "==", "!="}
PrefixOps == {"-", "!"}
Operands == <<"a", "b", "c", "d", "e", "f">>

\* the chain a ops[1] b ops[2] c ...
Chain(ops) ==
    [i \in 1..(2 * Len(ops) + 1) |->
        IF i % 2 = 1 THEN Ident(Operands[(i + 1) \div 2]) ELSE Op(ops[i \div 2])]
ChainOps == UNION {[1..n -> InfixOps] : n \in 1..(MaxChain - 1)}
ChainInputs == {Chain(ops) : ops \in ChainOps}

\* (a op1 b) op2 c   and   a op1 (b op2 c)
GroupLeft(op1, op2) ==
    <<Op("("), Ident("a"), Op(op1), Ident("b"), Op(")"), Op(op2), Ident("c")>>
GroupRight(op1, op2) ==
    <<Ident("a"), Op(op1), Op("("), Ident("b"), Op(op2), Ident("c"), Op(")")>>
GroupInputs ==
    {GroupLeft(op1, op2) : op1 \in InfixOps, op2 \in InfixOps}
        \cup {GroupRight(op1, op2) : op1 \in InfixOps, op2 \in InfixOps}

\* a op f(b),  a op b[0],  pr f(x),  pr a[0],  pr a op b
InfixCall(op) == <<Ident("a"), Op(op), Ident("f"), Op("("), Ident("b"), Op(")")>>
InfixIndex(op) == <<Ident("a"), Op(op), Ident("b"), Op("["), IntTok("0"), Op("]")>>
PrefixCall(pr) == <<Op(pr), Ident("f"), Op("("), Ident("x"), Op(")")>>
PrefixIndex(pr) == <<Op(pr), Ident("a"), Op("["), IntTok("0"), Op("]")>>
PrefixInfix(pr, op) == <<Op(pr), Ident("a"), Op(op), Ident("b")>>
BindingInputs ==
    {InfixCall(op) : op \in InfixOps} \cup {InfixIndex(op) : op \in InfixOps}
        \cup {PrefixCall(pr) : pr \in PrefixOps} \cup {PrefixIndex(pr) : pr \in PrefixOps}
        \cup {PrefixInfix(pr, op) : pr \in PrefixOps, op \in InfixOps}

\* let x followed by something other than =
AfterName ==
    {<<>>, <<Op(";")>>, <<IntTok("5"), Op(";")>>, <<Ident("y"), Op(";")>>,
     <<Op("+"), IntTok("5"), Op(";")>>, <<Op("("), IntTok("5"), Op(")"), Op(";")>>,
     <<Op(")")>>, <<Op("}")>>, <<Op("let"), Ident("y"), Op("="), IntTok("5"), Op(";")>>,
     <<Op("true")>>, <<Op(","), IntTok("5"), Op(";")>>, <<Op(";"), Ident("y")>>}
LetWithout(after) == <<Op("let"), Ident("x")>> \o after
LetInputs == {LetWithout(after) : after \in AfterName}

Inputs == <<
    \* 1: add(1
    <<Ident("add"), Op("("), IntTok("1")>>,
    \* 2: [1
    <<Op("["), IntTok("1")>>,
    \* 3: fn(x
    <<Op("fn"), Op("("), Ident("x")>>,
    \* 4: a + add(b + c) * d
    <<Ident("a"), Op("+"), Ident("add"), Op("("), Ident("b"), Op("+"), Ident("c"),
      Op(")"), Op("*"), Ident("d")>>,
    \* 5: let x 5; let y = 6;
    <<Op("let"), Ident("x"), IntTok("5"), Op(";"),
      Op("let"), Ident("y"), Op("="), IntTok("6"), Op(";")>>,
    \* 6: let x = 5; return x;;
    <<Op("let"), Ident("x"), Op("="), IntTok("5"), Op(";"),
      Op("return"), Ident("x"), Op(";"), Op(";")>>,
    \* 7: if (a < b) { a } else { b }
    <<Op("if"), Op("("), Ident("a"), Op("<"), Ident("b"), Op(")"),
      Op("{"), Ident("a"), Op("}"), Op("else"), Op("{"), Ident("b"), Op("}")>>,
    \* 8: fn(x, y) { x + y; }(1, [2, 3][0])
    <<Op("fn"), Op("("), Ident("x"), Op(","), Ident("y"), Op(")"),
      Op("{"), Ident("x"), Op("+"), Ident("y"), Op(";"), Op("}"),
      Op("("), IntTok("1"), Op(","), Op("["), IntTok("2"), Op(","), IntTok("3"),
      Op("]"), Op("["), IntTok("0"), Op("]"), Op(")")>>,
    \* 9: the empty input
    <<>>,
    \* 10: let 5;
    <<Op("let"), IntTok("5"), Op(";")>>,
    \* 11: (1 + 2
    <<Op("("), IntTok("1"), Op("+"), IntTok("2")>>,
    \* 12: "hello" == true; 9223372036854775808
    <<Token("STRING", "hello"), Op("=="), Op("true"), Op(";"),
      IntTok("9223372036854775808")>>,
    \* 13: if (a) { let x; }
    <<Op("if"), Op("("), Ident("a"), Op(")"), Op("{"), Op("let"), Ident("x"),
      Op(";"), Op("}")>>,
    \* 14: fn(x { x }
    <<Op("fn"), Op("("), Ident("x"), Op("{"), Ident("x"), Op("}")>>,
    \* 15: a[1
    <<Ident("a"), Op("["), IntTok("1")>>,
    \* 16: if (a { b
    <<Op("if"), Op("("), Ident("a"), Op("{"), Ident("b")>>,
    \* 17: fn(1) {}
    <<Op("fn"), Op("("), IntTok("1"), Op(")"), Op("{"), Op("}")>>,
    \* 18: fn(x y) {}
    <<Op("fn"), Op("("), Ident("x"), Ident("y"), Op(")"), Op("{"), Op("}")>>,
    \* 19: fn(x, y) {}
    <<Op("fn"), Op("("), Ident("x"), Op(","), Ident("y"), Op(")"), Op("{"),
      Op("}")>>,
    \* 20: add(1; let y = 6;
    <<Ident("add"), Op("("), IntTok("1"), Op(";"),
      Op("let"), Ident("y"), Op("="), IntTok("6"), Op(";")>>,
    \* 21: (1 + 2; let y = 6;
    <<Op("("), IntTok("1"), Op("+"), IntTok("2"), Op(";"),
      Op("let"), Ident("y"), Op("="), IntTok("6"), Op(";")>>
>>

InputSet ==
    {Inputs[i] : i \in 1..Len(Inputs)} \cup ChainInputs \cup GroupInputs
        \cup BindingInputs \cup LetInputs

(***************************************************************************)
(* The parser as a state machine: New(l) followed by ParseProgram().       *)
(***************************************************************************)
ParseInit ==
    /\ input \in InputSet
    /\ p = New
    /\ stack = <<Frame("ParseProgram", NoNode, LOWEST)>>
    /\ ret = NoNode
    /\ program = NoNode
    \* no evaluator runs
    /\ pc = "idle"
    /\ result = NIL
    /\ heap = <<>>
    /\ mem = <<>>
    /\ next = FirstAddr
    /\ prog = <<>>
    /\ trace = <<>>

ParseNext ==
    \/ ParseProgram
    \/ parseStatement
    \/ parseLetStatement
    \/ parseReturnStatement
    \/ parseExpressionStatement
    \/ parseExpression
    \/ parsePrefixExpression
    \/ parseInfixExpression
    \/ parseGroupedExpression
    \/ parseIfExpression
    \/ parseFunctionExpression
    \/ parseFunctionParameters
    \/ parseBlockStatement
    \/ parseFunctionCall
    \/ parseFunctionCallParameters
    \/ parseArrayLiteral
    \/ parseIndexingExpression

ParseSpec == ParseInit /\ [][ParseNext]_vars

\* the host runs the parser's goroutine to its end if it has one
FairParseSpec == ParseSpec /\ WF_vars(ParseNext)

\* ParseProgram has returned
Done == stack = <<>> /\ program # NoNode

(***************************************************************************)
(* Claims about the parser (checked under ParseSpec and FairParseSpec).    *)
(***************************************************************************)
\* C6: ParseProgram terminates on every finite token sequence followed by
\* end of input, an unterminated call argument list, array literal or
\* parameter list included: every run of the parser reaches the return of
\* ParseProgram.
C6_ParseProgramTerminates == <>Done

\* the precedence table of the claim: EQUALS < LESSGREATER < SUM < PRODUCT
OpPrec(op) ==
    CASE op \in {"==", "!="} -> 1
      [] op \in {"<", ">"} -> 2
      [] op \in {"+", "-"} -> 3
      [] op \in {"*", "/"} -> 4

RECURSIVE InOrder(_), Shaped(_)
\* the tokens of a tree of infix expressions over identifiers, left to right
InOrder(e) ==
    CASE e.node = "InfixExpression" ->
           InOrder(e.Left) \o <<Op(e.Operator)>> \o InOrder(e.Right)
      [] e.node = "Identifier" -> <<Ident(e.Value)>>
      [] OTHER -> <<>>

\* every left child binds at least as tightly as its parent, every right
\* child strictly tighter
Shaped(e) ==
    IF e.node # "InfixExpression" THEN TRUE
    ELSE /\ Shaped(e.Left)
         /\ Shaped(e.Right)
         /\ e.Left.node = "InfixExpression"
                => OpPrec(e.Left.Operator) >= OpPrec(e.Operator)
         /\ e.Right.node = "InfixExpression"
                => OpPrec(e.Right.Operator) > OpPrec(e.Operator)

\* C7: a chain of operands joined by + - * / < > == != parses, without an
\* error, to the one tree over the chain in which operators of higher
\* precedence bind tighter and operators of equal precedence associate to the
\* left; a op1 b op2 c is ((a op1 b) op2 c) when prec(op1) >= prec(op2) and
\* (a op1 (b op2 c)) otherwise; a parenthesised group is a single operand.
C7_PrecedenceAndLeftAssociativity ==
    Done =>
      /\ input \in ChainInputs =>
           /\ p.errors = <<>>
           /\ Len(program.Statements) = 1
           /\ program.Statements[1].node = "ExpressionStatement"
           /\ InOrder(program.Statements[1].Expression) = input
           /\ Shaped(program.Statements[1].Expression)
      /\ \A op1 \in InfixOps, op2 \in InfixOps :
           /\ input = Chain(<<op1, op2>>) =>
                program = Program(<<Expr(
                    IF OpPrec(op1) >= OpPrec(op2)
                    THEN Bin(Bin(Var("a"), op1, Var("b")), op2, Var("c"))
                    ELSE Bin(Var("a"), op1, Bin(Var("b"), op2, Var("c"))))>>)
           /\ input = GroupLeft(op1, op2) =>
                /\ p.errors = <<>>
                /\ program = Program(<<Expr(
                       Bin(Bin(Var("a"), op1, Var("b")), op2, Var("c")))>>)
           /\ input = GroupRight(op1, op2) =>
                /\ p.errors = <<>>
                /\ program = Program(<<Expr(
                       Bin(Var("a"), op1, Bin(Var("b"), op2, Var("c"))))>>)

\* a + b * c - d has been parsed to ((a + (b * c)) - d)
C7_Witness ==
    /\ Done
    /\ input = Chain(<<"+", "*", "-">>)
    /\ String(program) = "((a + (b * c)) - d)"

\* C8: calls and indexing bind tighter than any prefix, arithmetic or
\* comparison operator: a + add(b + c) * d is (a + (add((b + c)) * d)),
\* -a * b is ((-a) * b), a prefix operator before f(x) or a[0] applies to the
\* whole call or index expression, and a call or index expression after a
\* binary operator is that operator's right operand.
C8_CallsAndIndexingBindTightest ==
    Done =>
      /\ input = Inputs[4] => String(program) = "(a + (add((b + c)) * d))"
      /\ input = PrefixInfix("-", "*") => String(program) = "((-a) * b)"
      /\ \A pr \in PrefixOps :
           /\ input = PrefixCall(pr) =>
                program = Program(<<Expr(
                    PrefixExpression(pr, Call(Var("f"), <<Var("x")>>)))>>)
           /\ input = PrefixIndex(pr) =>
                program = Program(<<Expr(
                    PrefixExpression(pr, IndexingExpression(Var("a"), Num(0))))>>)
           /\ \A op \in InfixOps :
                input = PrefixInfix(pr, op) =>
                    program = Program(<<Expr(
                        Bin(PrefixExpression(pr, Var("a")), op, Var("b")))>>)
      /\ \A op \in InfixOps :
           /\ input = InfixCall(op) =>
                program = Program(<<Expr(
                    Bin(Var("a"), op, Call(Var("f"), <<Var("b")>>)))>>)
           /\ input = InfixIndex(op) =>
                program = Program(<<Expr(
                    Bin(Var("a"), op, IndexingExpression(Var("b"), Num(0))))>>)

\* a + add(b + c) * d has been parsed, its call an operand of *
C8_Witness ==
    /\ Done
    /\ input = Inputs[4]
    /\ program.Statements[1].Expression.Right.Left.node = "FunctionCallExpression"

\* the input begins with a let statement whose identifier is not followed by =
LetWithoutAssign ==
    /\ Len(input) >= 2
    /\ input[1].Type = "LET"
    /\ input[2].Type = "IDENT"
    /\ Len(input) >= 3 => input[3].Type # "ASSIGN"

\* C9: a let statement whose identifier is not followed by = makes the parser
\* record at least one error, whatever follows the identifier.
C9_LetWithoutAssignRecordsError ==
    Done /\ LetWithoutAssign => p.errors # <<>>

\* C10: a let statement with a missing = is skipped: after let x 5; the
\* program holds no LetStatement for x, and the parser resumes at the next
\* statement (let x 5; let y = 6; gives the one statement let y = 6;).
C10_LetWithoutAssignIsSkipped ==
    Done =>
      /\ (Len(input) >= 4 /\ SubSeq(input, 1, 4) = LetWithout(<<IntTok("5"), Op(";")>>))
            => \A i \in 1..Len(program.Statements) :
                  program.Statements[i].node = "LetStatement"
                      => program.Statements[i].Name.Value # "x"
      /\ input = Inputs[5]
            => program = Program(<<LetStatement("y", Num(6))>>)


\* the function literals that are a statement of the program
FunctionLiterals ==
    {program.Statements[k].Expression : k \in
        {j \in 1..Len(program.Statements) :
            /\ program.Statements[j].node = "ExpressionStatement"
            /\ program.Statements[j].Expression.node =
                  "FunctionLiteralExpression"}}

\* the literals of the identifier tokens of the input
IdentifierLiterals ==
    {input[i].Literal : i \in {j \in 1..Len(input) : input[j].Type = "IDENT"}}

\* C28: the parameter list of a function literal holds identifiers only,
\* separated by commas: no token that is not an identifier becomes a
\* parameter name, a token between ( and ) that is neither an identifier nor
\* a separating comma makes the parser record an error (`fn(1) {}`), and so
\* do two parameters with no comma between them (`fn(x y) {}`).
C28_ParametersAreIdentifiers ==
    Done =>
      /\ \A f \in FunctionLiterals : \A k \in 1..Len(f.Parameters) :
            f.Parameters[k].Value \in IdentifierLiterals
      /\ input = Inputs[17] => p.errors # <<>>
      /\ input = Inputs[18] => p.errors # <<>>

\* the inputs made of a statement that records an error, a semicolon and
\* the well-formed statement let y = 6;
Recovering == {Inputs[5], Inputs[20], Inputs[21]}

\* the list is the beginning of the longer list
IsPrefix(list, longer) ==
    Len(list) <= Len(longer) /\ SubSeq(longer, 1, Len(list)) = list

\* C30: parser errors never stop parsing and the error list only grows: no
\* step of the parser removes or rewrites a recorded error, and after a
\* statement that records an error the parser goes on to the end of input
\* with every well-formed statement after the next statement boundary parsed
\* into the program: on `let x 5; let y = 6;`, `add(1; let y = 6;` and `(1 +
\* 2; let y = 6;` the parser is at the end of input only when ParseProgram
\* has returned, with an error recorded and `let y = 6;` in the program.
C30_ErrorsNeverStopParsing ==
    /\ [][IsPrefix(p.errors, p'.errors)]_vars
    /\ []((input \in Recovering /\ p.curToken.Type = "EOF") =>
            /\ Done
            /\ p.errors # <<>>
            /\ \E k \in 1..Len(program.Statements) :
                  program.Statements[k] = LetStatement("y", Num(6)))

====
